---- MODULE Spec2Model ----
(***************************************************************************)
(* Launch-command preparation of minecraft-launcher-core                   *)
(* (src/src/launcher/launcher.go): profile inheritance, platform rules,    *)
(* classpath resolution, native staging and argument assembly.             *)
(*                                                                         *)
(* Text is modelled as a sequence of tokens: a token is either a separator *)
(* character (":", "/", "\\", " ") or a separator-free piece of text, so   *)
(* that strings.Split, filepath.FromSlash and filepath.Join are computed   *)
(* on the tokens and two different texts render to different strings.      *)
(***************************************************************************)
EXTENDS Integers, Sequences, FiniteSets, TLC

VARIABLES
    goos,        \* runtime.GOOS of the build
    pc,          \* position of the operation under way
    rules,       \* argument of shouldIncludeLibrary
    ruleResult,  \* its return value
    docs,        \* versions/<id>/<id>.json for every id: its parsed content
    version,     \* the requested version identifier
    callArg,     \* version argument of the loadVersionJSON call being entered
    stack,       \* loadVersionJSON frames waiting for their parent's result
    ret,         \* value returned by the last finished loadVersionJSON call
    events,      \* every E.Emit so far, in order
    fsFiles,     \* the paths for which os.Stat returns no error
    fsErr,       \* the paths for which os.Stat fails otherwise than "not exist"
    staging,     \* versions/<version>/natives: its kind and its files
    archives,    \* the files under libraries/ in filepath.Walk order
    params,      \* the arguments PrepareCMD was called with
    opts,        \* the same after the defaults are applied
    versionJSON, \* PrepareCMD's resolved profile
    classpath,   \* what buildClasspath returned
    result,      \* what PrepareCMD returned
    listeners,   \* EventEmitter.listeners: the handlers of every event name
    mu,          \* EventEmitter.mu: the holders and waiters of the RWMutex
    goroutines,  \* every goroutine's statements left and its call stack
    history,     \* the Emit calls, handler calls and returns so far, in order
    invocations, \* the concurrent PrepareCMD calls: position and locals of each
    nativesDirs, \* versions/<id>/natives for every id: its kind and its files
    nativesBefore \* the same when the concurrent calls began

vars == <<goos, pc, rules, ruleResult, docs, version, callArg, stack, ret, events,
          fsFiles, fsErr, staging, archives, params, opts, versionJSON, classpath,
          result, listeners, mu, goroutines, history, invocations, nativesDirs,
          nativesBefore>>

ruleVars == <<rules, ruleResult>>
loadVars == <<docs, version, callArg, stack, ret>>
fsVars == <<fsFiles, fsErr, staging, archives>>
launchVars == <<params, opts, versionJSON, classpath, result>>
launcherVars == <<goos, pc, ruleVars, loadVars, events, fsVars, launchVars>>
emitterVars == <<listeners, mu, goroutines, history>>
extractVars == <<invocations, nativesDirs, nativesBefore>>

(***************************** bounds ***************************************)
MaxRules == 3
MaxLibs == 1
MaxDepth == 4
MaxCpLibs == 2
MaxRebuildLibs == 2
MaxArchives == 2
MaxCalls == 2

(***************************** platforms ************************************)
GOOSValues == {"windows", "darwin", "linux", "freebsd"}

getOSName(os) ==
    CASE os = "windows" -> "windows"
      [] os = "darwin"  -> "osx"
      [] os = "linux"   -> "linux"
      [] OTHER          -> os

(***************************** platform rules *******************************)
\* rule.Action is any JSON string: "other" stands for every value that is
\* neither "allow" nor "disallow"; rule.OS.Name "" is an unscoped rule.
RuleActions == {"allow", "disallow", "other"}
RuleOSNames == {"", "windows", "osx", "linux"}
Rule == [action : RuleActions, os : RuleOSNames]

SeqsUpTo(S, n) == UNION {[1..k -> S] : k \in 0..n}

RuleMatches(rule, osName) == rule.os = "" \/ rule.os = osName

\* the for loop of shouldIncludeLibrary from index i on, with the flag so far
RECURSIVE RuleLoop(_, _, _, _)
RuleLoop(rs, i, allowed, osName) ==
    IF i > Len(rs) THEN allowed
    ELSE IF rs[i].action = "allow"
         THEN RuleLoop(rs, i + 1, allowed \/ RuleMatches(rs[i], osName), osName)
         ELSE IF rs[i].action = "disallow" /\ RuleMatches(rs[i], osName)
              THEN FALSE
              ELSE RuleLoop(rs, i + 1, allowed, osName)

\* mutant: a deny rule only clears the flag, so a later allow re-enables
RECURSIVE RuleLoopLastWins(_, _, _, _)
RuleLoopLastWins(rs, i, allowed, osName) ==
    IF i > Len(rs) THEN allowed
    ELSE IF RuleMatches(rs[i], osName) /\ rs[i].action \in {"allow", "disallow"}
         THEN RuleLoopLastWins(rs, i + 1, rs[i].action = "allow", osName)
         ELSE RuleLoopLastWins(rs, i + 1, allowed, osName)

shouldIncludeLibrary_lastWins(rs, os) ==
    IF Len(rs) = 0 THEN TRUE ELSE RuleLoopLastWins(rs, 1, FALSE, getOSName(os))

\* mutant: the provisional flag starts true (include unless denied)
shouldIncludeLibrary_defaultAllow(rs, os) ==
    IF Len(rs) = 0 THEN TRUE ELSE RuleLoop(rs, 1, TRUE, getOSName(os))

shouldIncludeLibrary(rs, os) ==
    IF Len(rs) = 0 THEN TRUE ELSE RuleLoop(rs, 1, FALSE, getOSName(os))

(***************************** text *****************************************)
\* the string a token sequence stands for
RECURSIVE Render(_)
Render(t) == IF t = <<>> THEN "" ELSE Head(t) \o Render(Tail(t))

\* strings.Split(t, sep): the pieces between the occurrences of token sep
RECURSIVE SplitFrom(_, _, _, _)
SplitFrom(t, sep, done, cur) ==
    IF t = <<>> THEN Append(done, cur)
    ELSE IF Head(t) = sep
         THEN SplitFrom(Tail(t), sep, Append(done, cur), <<>>)
         ELSE SplitFrom(Tail(t), sep, done, Append(cur, Head(t)))

Split(t, sep) == SplitFrom(t, sep, <<>>, <<>>)

RECURSIVE Flatten(_)
Flatten(ss) == IF ss = <<>> THEN <<>> ELSE Head(ss) \o Flatten(Tail(ss))

(***************************** profile documents ****************************)
IDs == {"A", "B", "C"}

NoAssetIndex == [id |-> ""]

\* the VersionJSON fields the launcher reads
EmptyDoc(id) ==
    [kind |-> "ok", id |-> id, mainClass |-> "", minecraftArguments |-> <<>>,
     inheritsFrom |-> "", assetIndex |-> NoAssetIndex, assets |-> "",
     libraries |-> <<>>, argumentsGame |-> 0]

\* os.ReadFile fails / json.Unmarshal fails
MissingDoc == [kind |-> "missing"]
MalformedDoc == [kind |-> "malformed"]

\* the installation's documents: one per identifier
DocsOf(a, b, c) == [i \in IDs |-> IF i = "A" THEN a ELSE IF i = "B" THEN b ELSE c]

(***************************** loadVersionJSON ******************************)
NoValue == [tag |-> "none"]

Emit(log, name, data) == Append(log, [name |-> name, data |-> data])

\* mutant: the parent's main class replaces the child's whenever it is set
MergeMainClass_parentWins(child, parent) ==
    IF parent.mainClass # "" THEN parent.mainClass ELSE child.mainClass

MergeMainClass(child, parent) ==
    IF child.mainClass = "" THEN parent.mainClass ELSE child.mainClass

MergeMinecraftArguments(child, parent) ==
    IF child.minecraftArguments = <<>> THEN parent.minecraftArguments
    ELSE child.minecraftArguments

\* the whole AssetIndex struct is taken over when the child's id is empty
MergeAssetIndex(child, parent) ==
    IF child.assetIndex.id = "" THEN parent.assetIndex ELSE child.assetIndex

MergeAssets(child, parent) ==
    IF child.assets = "" THEN parent.assets ELSE child.assets

\* mutant: the child's libraries are put before the parent's
MergeLibraries_childFirst(child, parent) == child.libraries \o parent.libraries

MergeLibraries(child, parent) == parent.libraries \o child.libraries

\* lines 269-309: child is this call's document, parent the resolved parent
MergeParent(child, parent) ==
    [child EXCEPT !.mainClass = MergeMainClass(child, parent),
                  !.minecraftArguments = MergeMinecraftArguments(child, parent),
                  !.assetIndex = MergeAssetIndex(child, parent),
                  !.assets = MergeAssets(child, parent),
                  !.libraries = MergeLibraries(child, parent)]

ReadError(v) == [tag |-> "err", cause |-> "read", at |-> v, wraps |-> <<>>]
ParseError(v) == [tag |-> "err", cause |-> "parse", at |-> v, wraps |-> <<>>]

\* mutant: the parent's error is returned as it came
WrapParentError_asIs(err, parent) == err

\* fmt.Errorf("failed to load parent version %s: %w", parent, err)
WrapParentError(err, parent) == [err EXCEPT !.wraps = <<parent>> \o @]

LoadRunning == pc = "load"
LoadCalling == LoadRunning /\ callArg # ""
LoadReturning == LoadRunning /\ callArg = "" /\ stack # <<>>
LoadFinished == LoadRunning /\ callArg = "" /\ stack = <<>>

\* mutant: a version already being resolved further down is refused
LoadEnter_cycleGuard ==
    /\ LoadCalling
    /\ Len(stack) < MaxDepth
    /\ LET doc == docs[callArg] IN
         IF \E k \in 1..Len(stack) : stack[k].version = callArg
         THEN /\ ret' = [tag |-> "err", cause |-> "cycle", at |-> callArg, wraps |-> <<>>]
              /\ callArg' = ""
              /\ UNCHANGED <<stack, events>>
         ELSE IF doc.kind = "missing"
         THEN /\ ret' = ReadError(callArg)
              /\ callArg' = ""
              /\ UNCHANGED <<stack, events>>
         ELSE IF doc.kind = "malformed"
         THEN /\ ret' = ParseError(callArg)
              /\ callArg' = ""
              /\ UNCHANGED <<stack, events>>
         ELSE IF doc.inheritsFrom # ""
         THEN /\ events' = Emit(events, "version_inherits_from", doc.inheritsFrom)
              /\ stack' = Append(stack, [version |-> callArg, doc |-> doc])
              /\ callArg' = doc.inheritsFrom
              /\ UNCHANGED ret
         ELSE /\ ret' = [tag |-> "ok", doc |-> doc]
              /\ callArg' = ""
              /\ UNCHANGED <<stack, events>>
    /\ UNCHANGED <<emitterVars, extractVars>>
    /\ UNCHANGED <<goos, pc, ruleVars, docs, version, fsVars, launchVars>>

\* entry of one loadVersionJSON(gameDir, callArg) call, lines 247-264:
\* read and parse the document, then either return it or call the parent
LoadEnter ==
    /\ LoadCalling
    /\ Len(stack) < MaxDepth
    /\ LET doc == docs[callArg] IN
         IF doc.kind = "missing"
         THEN /\ ret' = ReadError(callArg)
              /\ callArg' = ""
              /\ UNCHANGED <<stack, events>>
         ELSE IF doc.kind = "malformed"
         THEN /\ ret' = ParseError(callArg)
              /\ callArg' = ""
              /\ UNCHANGED <<stack, events>>
         ELSE IF doc.inheritsFrom # ""
         THEN /\ events' = Emit(events, "version_inherits_from", doc.inheritsFrom)
              /\ stack' = Append(stack, [version |-> callArg, doc |-> doc])
              /\ callArg' = doc.inheritsFrom
              /\ UNCHANGED ret
         ELSE /\ ret' = [tag |-> "ok", doc |-> doc]
              /\ callArg' = ""
              /\ UNCHANGED <<stack, events>>
    /\ UNCHANGED <<emitterVars, extractVars>>
    /\ UNCHANGED <<goos, pc, ruleVars, docs, version, fsVars, launchVars>>

\* mutant: version_merged is emitted whether or not the parent was resolved
LoadReturn_mergedOnError ==
    /\ LoadReturning
    /\ LET frame == stack[Len(stack)]
           parent == frame.doc.inheritsFrom IN
         /\ stack' = SubSeq(stack, 1, Len(stack) - 1)
         /\ events' = Emit(events, "version_merged",
                           [child |-> frame.version, parent |-> parent])
         /\ IF ret.tag = "err"
            THEN ret' = WrapParentError(ret, parent)
            ELSE ret' = [tag |-> "ok", doc |-> MergeParent(frame.doc, ret.doc)]
    /\ UNCHANGED <<emitterVars, extractVars>>
    /\ UNCHANGED <<goos, pc, ruleVars, docs, version, callArg, fsVars, launchVars>>

\* the parent call of the innermost waiting frame has returned, lines 265-317
LoadReturn ==
    /\ LoadReturning
    /\ LET frame == stack[Len(stack)]
           parent == frame.doc.inheritsFrom IN
         /\ stack' = SubSeq(stack, 1, Len(stack) - 1)
         /\ IF ret.tag = "err"
            THEN /\ ret' = WrapParentError(ret, parent)
                 /\ UNCHANGED events
            ELSE /\ ret' = [tag |-> "ok", doc |-> MergeParent(frame.doc, ret.doc)]
                 /\ events' = Emit(events, "version_merged",
                                   [child |-> frame.version, parent |-> parent])
    /\ UNCHANGED <<emitterVars, extractVars>>
    /\ UNCHANGED <<goos, pc, ruleVars, docs, version, callArg, fsVars, launchVars>>

LoadIdle ==
    /\ docs = [i \in IDs |-> MissingDoc]
    /\ version = ""
    /\ callArg = ""
    /\ stack = <<>>
    /\ ret = NoValue

RulesIdle ==
    /\ rules = <<>>
    /\ ruleResult = FALSE

(***************************** paths ****************************************)
\* os.PathSeparator and os.PathListSeparator
Sep(os) == IF os = "windows" THEN "\\" ELSE "/"
PathListSeparator(os) == IF os = "windows" THEN ";" ELSE ":"

\* filepath.FromSlash: every "/" becomes the platform's separator
FromSlash(t, os) == [i \in 1..Len(t) |-> IF t[i] = "/" THEN Sep(os) ELSE t[i]]

\* the elements joined by the separator, empty elements ignored
RECURSIVE JoinRaw(_, _)
JoinRaw(elems, os) ==
    IF elems = <<>> THEN <<>>
    ELSE IF Head(elems) = <<>> THEN JoinRaw(Tail(elems), os)
    ELSE LET rest == JoinRaw(Tail(elems), os) IN
         IF rest = <<>> THEN Head(elems) ELSE Head(elems) \o <<Sep(os)>> \o rest

\* filepath.Clean on the segments: "" and "." dropped, ".." removes its parent
RECURSIVE CleanSegs(_, _)
CleanSegs(segs, out) ==
    IF segs = <<>> THEN out
    ELSE LET seg == Head(segs) IN
         IF seg = <<>> \/ Render(seg) = "." THEN CleanSegs(Tail(segs), out)
         ELSE IF Render(seg) = ".." /\ out # <<>> /\ Render(out[Len(out)]) # ".."
              THEN CleanSegs(Tail(segs), SubSeq(out, 1, Len(out) - 1))
              ELSE CleanSegs(Tail(segs), Append(out, seg))

Clean(t, os) ==
    LET segs == CleanSegs(Split(FromSlash(t, os), Sep(os)), <<>>) IN
    IF segs = <<>> THEN <<".">> ELSE JoinRaw(segs, os)

\* filepath.Join of relative elements, as the string it yields
Join(elems, os) == Render(Clean(JoinRaw(elems, os), os))

\* filepath.Base: the last segment
Base(t, os) ==
    LET segs == CleanSegs(Split(FromSlash(t, os), Sep(os)), <<>>) IN
    IF segs = <<>> THEN <<".">> ELSE segs[Len(segs)]

\* PrepareCMD's gameDir argument
GameDir == <<"mc">>

LibDir(os) == <<GameDir, <<"libraries">>>>
VersionDir(v, os) == <<GameDir, <<"versions">>, <<v>>>>
VersionJar(v, os) == Join(VersionDir(v, os) \o <<<<v, ".jar">>>>, os)

\* os.Stat(path) returned a nil error
Stat(path, files) == path \in files

(***************************** buildClasspath *******************************)
\* filepath.Join(libDir, filepath.FromSlash(lib.Downloads.Artifact.Path))
PrimaryPath(lib, os) == Join(LibDir(os) \o <<FromSlash(lib.path, os)>>, os)

\* the four patterns tried for a library without artifact path, in order
possiblePaths(lib, v, os) ==
    LET parts == Split(lib.name, ":")
        group == parts[1]
        artifact == parts[2]
        ver == parts[3]
        file == artifact \o <<"-">> \o ver \o <<".jar">>
    IN << Join(VersionDir(v, os) \o <<file>>, os),
          Join(LibDir(os) \o <<FromSlash(group, os), artifact, ver, file>>, os),
          Join(LibDir(os) \o <<FromSlash(group, os), artifact, file>>, os),
          Join(VersionDir(v, os) \o <<lib.name \o <<".jar">>>>, os) >>

\* index of the first path of ps that exists, 0 when none does
RECURSIVE FirstExistingFrom(_, _, _)
FirstExistingFrom(ps, i, files) ==
    IF i > Len(ps) THEN 0
    ELSE IF Stat(ps[i], files) THEN i
    ELSE FirstExistingFrom(ps, i + 1, files)

\* mutant: the loop does not break, the last existing pattern stays
FirstExisting_last(ps, files) ==
    IF \E i \in 1..Len(ps) : Stat(ps[i], files)
    THEN CHOOSE i \in 1..Len(ps) :
             Stat(ps[i], files) /\ \A j \in (i + 1)..Len(ps) : ~Stat(ps[j], files)
    ELSE 0

FirstExisting(ps, files) == FirstExistingFrom(ps, 1, files)

Nothing == [paths |-> <<>>, events |-> <<>>]

\* lines 357-395: a library with a name and no artifact path
ResolveByName(lib, v, os, files) ==
    IF Len(Split(lib.name, ":")) >= 3
    THEN LET ps == possiblePaths(lib, v, os)
             k == FirstExisting(ps, files) IN
         IF k > 0
         THEN [paths |-> <<ps[k]>>,
               events |-> <<[name |-> "library_found_alternative",
                             data |-> [name |-> Render(lib.name), path |-> ps[k]]]>>]
         ELSE [paths |-> <<>>,
               events |-> <<[name |-> "library_not_found", data |-> Render(lib.name)]>>]
    ELSE Nothing

\* mutant: a missing primary file falls through to the coordinate patterns
LibResolve_fallThrough(lib, v, os, files) ==
    IF ~shouldIncludeLibrary(lib.rules, os) THEN Nothing
    ELSE IF lib.path # <<>> /\ Stat(PrimaryPath(lib, os), files)
    THEN [paths |-> <<PrimaryPath(lib, os)>>, events |-> <<>>]
    ELSE IF lib.name # <<>> THEN ResolveByName(lib, v, os, files)
    ELSE Nothing

\* one iteration of the library loop, lines 341-396: the paths it appends to
\* classpathParts and the events it emits
LibResolve(lib, v, os, files) ==
    IF ~shouldIncludeLibrary(lib.rules, os) THEN Nothing
    ELSE IF lib.path # <<>>
    THEN IF Stat(PrimaryPath(lib, os), files)
         THEN [paths |-> <<PrimaryPath(lib, os)>>, events |-> <<>>]
         ELSE [paths |-> <<>>,
               events |-> <<[name |-> "library_missing",
                             data |-> [name |-> Render(lib.name),
                                       path |-> PrimaryPath(lib, os)]]>>]
    ELSE IF lib.name # <<>> THEN ResolveByName(lib, v, os, files)
    ELSE Nothing

\* strings.Join(parts, sep)
RECURSIVE JoinStrings(_, _)
JoinStrings(parts, sep) ==
    IF parts = <<>> THEN ""
    ELSE IF Len(parts) = 1 THEN parts[1]
    ELSE parts[1] \o sep \o JoinStrings(Tail(parts), sep)

\* the library loop from index i on; picks[i] is what library i contributed
RECURSIVE LibraryLoop(_, _, _, _, _, _)
LibraryLoop(libs, i, v, os, files, acc) ==
    IF i > Len(libs) THEN acc
    ELSE LET r == LibResolve(libs[i], v, os, files) IN
         LibraryLoop(libs, i + 1, v, os, files,
                     [parts |-> acc.parts \o r.paths,
                      picks |-> Append(acc.picks, r.paths),
                      events |-> acc.events \o r.events])

\* mutant: the loop is left at the first library that cannot be resolved
RECURSIVE LibraryLoopStop(_, _, _, _, _, _)
LibraryLoopStop(libs, i, v, os, files, acc) ==
    IF i > Len(libs) THEN acc
    ELSE LET r == LibResolve(libs[i], v, os, files)
             next == [parts |-> acc.parts \o r.paths,
                      picks |-> Append(acc.picks, r.paths),
                      events |-> acc.events \o r.events] IN
         IF r.paths = <<>> /\ r.events # <<>>
         THEN [next EXCEPT !.picks = @ \o [k \in 1..(Len(libs) - i) |-> <<>>]]
         ELSE LibraryLoopStop(libs, i + 1, v, os, files, next)

LibraryPass_stopAtMissing(libs, v, os, files) ==
    LibraryLoopStop(libs, 1, v, os, files,
                    [parts |-> <<>>, picks |-> <<>>, events |-> <<>>])

\* mutant: the libraries are visited in an order that changes from run to run,
\* as a range over a Go map would
LibraryPass_orderPerRun(libs, v, os, files) ==
    LibraryLoop(IF result.tag = "none" THEN libs
                ELSE [i \in 1..Len(libs) |-> libs[Len(libs) + 1 - i]],
                1, v, os, files,
                [parts |-> <<>>, picks |-> <<>>, events |-> <<>>])

LibraryPass(libs, v, os, files) ==
    LibraryLoop(libs, 1, v, os, files,
                [parts |-> <<>>, picks |-> <<>>, events |-> <<>>])

\* buildClasspath(gameDir, v, vj, E): the joined string it returns, with the
\* classpathParts behind it, each library's contribution and the events
buildClasspath(v, vj, os, files) ==
    LET pass == LibraryPass(vj.libraries, v, os, files)
        jar == VersionJar(v, os)
        parts == IF Stat(jar, files) THEN Append(pass.parts, jar) ELSE pass.parts
    IN [parts |-> parts,
        picks |-> pass.picks,
        events |-> Append(pass.events,
                          [name |-> "classpath_built", data |-> Len(parts)]),
        joined |-> JoinStrings(parts, PathListSeparator(os))]

NoClasspath == [parts |-> <<>>, picks |-> <<>>, events |-> <<>>, joined |-> ""]

\* PrepareCMD lines 483-485
BuildClasspath ==
    /\ pc = "build"
    /\ LET cp == buildClasspath(version, versionJSON, goos, fsFiles) IN
         /\ classpath' = cp
         /\ events' = Emit(events, "building_classpath", Join(LibDir(goos), goos))
                        \o cp.events
    /\ pc' = "assemble"
    /\ UNCHANGED <<emitterVars, extractVars>>
    /\ UNCHANGED <<goos, ruleVars, loadVars, fsVars, params, opts, versionJSON, result>>

FsIdle ==
    /\ fsFiles = {}
    /\ fsErr = {}
    /\ staging = [kind |-> "absent", files |-> {}]
    /\ archives = <<>>

NoResult == [tag |-> "none"]

NoParams ==
    [username |-> <<>>, javaPath |-> <<>>, maxRam |-> <<>>, minRam |-> <<>>,
     accessToken |-> <<>>, uuid |-> <<>>, extraArgs |-> <<>>]


LaunchIdle ==
    /\ params = NoParams
    /\ opts = NoParams
    /\ versionJSON = EmptyDoc("")
    /\ classpath = NoClasspath
    /\ result = NoResult

(***************************** native extraction ****************************)
\* strings.ToLower on the tokens that carry upper-case letters
LowerTok(tok) ==
    CASE tok = ".SO"  -> ".so"
      [] tok = ".DLL" -> ".dll"
      [] tok = ".JAR" -> ".jar"
      [] tok = "NATIVES" -> "natives"
      [] OTHER -> tok

NativeSuffixes == {".dll", ".so", ".dylib", ".jnilib"}

\* strings.HasSuffix(strings.ToLower(name), ".dll") || ... ".so", ".dylib", ".jnilib"
HasNativeSuffix(name) ==
    name # <<>> /\ LowerTok(name[Len(name)]) \in NativeSuffixes

\* strings.Contains(strings.ToLower(name), pattern) for the patterns
\* "natives" and "natives-<os>"
ContainsPattern(name, pattern) ==
    \E k \in 1..Len(name) :
        LET tok == LowerTok(name[k]) IN
        \/ tok = pattern
        \/ pattern = "natives"
             /\ tok \in {"natives-windows", "natives-osx", "natives-linux"}

HasNativeFile(files) == \E f \in files : HasNativeSuffix(f.name)

\* mutant: every directory entry counts as a native file
NativeCount_anyEntry(files) == Cardinality(files)

NativeCount(files) == Cardinality({f \in files : HasNativeSuffix(f.name)})

FileExists(files, name) == \E f \in files : f.name = name

\* mutant: no test for an existing target, the entry is written over it
RECURSIVE ExtractEntries_overwrite(_, _, _, _)
ExtractEntries_overwrite(entries, i, st, os) ==
    IF i > Len(entries) THEN st
    ELSE LET f == entries[i]
             dest == Base(f.name, os)
             skip == \/ f.dir
                     \/ (Len(f.name) >= 2 /\ f.name[1] = "META-INF" /\ f.name[2] = "/")
                     \/ ~HasNativeSuffix(f.name)
                     \/ f.read = "openfail"
             kept == {g \in st.files : g.name # dest}
         IN IF skip THEN ExtractEntries_overwrite(entries, i + 1, st, os)
            ELSE IF f.read = "copyfail"
            THEN ExtractEntries_overwrite(entries, i + 1,
                    [st EXCEPT !.files = kept \cup {[name |-> dest, content |-> "partial"]}],
                    os)
            ELSE ExtractEntries_overwrite(entries, i + 1,
                    [files |-> kept \cup {[name |-> dest, content |-> f.content]},
                     events |-> Append(st.events,
                                       [name |-> "native_extracted", data |-> Render(dest)])],
                    os)

\* extractJar's loop over r.File from entry i on; st is the staging content
\* and the events so far
RECURSIVE ExtractEntries(_, _, _, _)
ExtractEntries(entries, i, st, os) ==
    IF i > Len(entries) THEN st
    ELSE LET f == entries[i]
             dest == Base(f.name, os)
             skip == \/ f.dir
                     \/ (Len(f.name) >= 2 /\ f.name[1] = "META-INF" /\ f.name[2] = "/")
                     \/ ~HasNativeSuffix(f.name)
                     \/ FileExists(st.files, dest)
                     \/ f.read = "openfail"
         IN IF skip THEN ExtractEntries(entries, i + 1, st, os)
            ELSE IF f.read = "copyfail"
            THEN ExtractEntries(entries, i + 1,
                    [st EXCEPT !.files = @ \cup {[name |-> dest, content |-> "partial"]}],
                    os)
            ELSE ExtractEntries(entries, i + 1,
                    [files |-> st.files \cup {[name |-> dest, content |-> f.content]},
                     events |-> Append(st.events,
                                       [name |-> "native_extracted", data |-> Render(dest)])],
                    os)

\* extractJar(jarPath, destDir, E): zip.OpenReader fails on an unreadable archive
extractJar(jar, st, os) ==
    IF ~jar.readable THEN st ELSE ExtractEntries(jar.entries, 1, st, os)

\* mutant: the walk ends at the first matching archive that cannot be opened
RECURSIVE WalkArchives_stopAtUnreadable(_, _, _, _)
WalkArchives_stopAtUnreadable(jars, i, st, os) ==
    IF i > Len(jars) THEN st
    ELSE LET jar == jars[i] IN
         IF jar.name = <<>> \/ jar.name[Len(jar.name)] # ".jar"
         THEN WalkArchives_stopAtUnreadable(jars, i + 1, st, os)
         ELSE IF ContainsPattern(jar.name, "natives-" \o getOSName(os))
                 \/ ContainsPattern(jar.name, "natives")
         THEN LET announced == [st EXCEPT !.events =
                                   Append(@, [name |-> "native_jar_processing",
                                              data |-> Render(jar.name)])] IN
              IF ~jar.readable THEN announced
              ELSE WalkArchives_stopAtUnreadable(jars, i + 1,
                      extractJar(jar, announced, os), os)
         ELSE WalkArchives_stopAtUnreadable(jars, i + 1, st, os)

\* the filepath.Walk callback over the files under libDir, from file i on
RECURSIVE WalkArchives(_, _, _, _)
WalkArchives(jars, i, st, os) ==
    IF i > Len(jars) THEN st
    ELSE LET jar == jars[i] IN
         IF jar.name = <<>> \/ jar.name[Len(jar.name)] # ".jar"
         THEN WalkArchives(jars, i + 1, st, os)
         ELSE IF ContainsPattern(jar.name, "natives-" \o getOSName(os))
                 \/ ContainsPattern(jar.name, "natives")
         THEN WalkArchives(jars, i + 1,
                 extractJar(jar,
                     [st EXCEPT !.events =
                         Append(@, [name |-> "native_jar_processing",
                                    data |-> Render(jar.name)])],
                     os),
                 os)
         ELSE WalkArchives(jars, i + 1, st, os)

NoNativesMessage ==
    "no native libraries were extracted - check if native JARs exist in libraries"

\* mutant: one staging directory for every version
NativesDir_shared(v, os) == Join(VersionDir("A", os) \o <<<<"natives">>>>, os)

NativesDir(v, os) == Join(VersionDir(v, os) \o <<<<"natives">>>>, os)

\* mutant: no check for natives staged earlier, the archives are always walked
extractNativesFromLibraries_alwaysScan(sd, jars, v, os) ==
    IF sd.kind = "file"
    THEN [staging |-> sd, events |-> <<>>, err |-> "mkdir"]
    ELSE LET start == <<[name |-> "extracting_natives_start",
                         data |-> Join(LibDir(os), os)]>> IN
         IF os \notin {"windows", "darwin", "linux"}
         THEN [staging |-> [sd EXCEPT !.kind = "dir"], events |-> start,
               err |-> "unsupported platform: " \o os]
         ELSE LET st == WalkArchives(jars, 1, [files |-> sd.files, events |-> start], os)
                  n == NativeCount(st.files) IN
              IF n = 0
              THEN [staging |-> [kind |-> "dir", files |-> st.files],
                    events |-> Append(st.events,
                        [name |-> "error",
                         data |-> "No native libraries were extracted - check if native JARs exist in libraries"]),
                    err |-> NoNativesMessage]
              ELSE [staging |-> [kind |-> "dir", files |-> st.files],
                    events |-> Append(st.events,
                        [name |-> "natives_extracted", data |-> n]),
                    err |-> ""]

\* extractNativesFromLibraries(libDir, nativesDir, E) on staging directory sd:
\* the directory afterwards, the events emitted and the error returned
extractNativesFromLibraries(sd, jars, v, os) ==
    IF sd.kind = "file"
    THEN [staging |-> sd, events |-> <<>>, err |-> "mkdir"]
    ELSE IF HasNativeFile(sd.files)
    THEN [staging |-> [sd EXCEPT !.kind = "dir"],
          events |-> <<[name |-> "natives_already_extracted",
                        data |-> NativesDir(v, os)]>>,
          err |-> ""]
    ELSE LET start == <<[name |-> "extracting_natives_start",
                         data |-> Join(LibDir(os), os)]>> IN
         IF os \notin {"windows", "darwin", "linux"}
         THEN [staging |-> [sd EXCEPT !.kind = "dir"], events |-> start,
               err |-> "unsupported platform: " \o os]
         ELSE LET st == WalkArchives(jars, 1, [files |-> sd.files, events |-> start], os)
                  n == NativeCount(st.files) IN
              IF n = 0
              THEN [staging |-> [kind |-> "dir", files |-> st.files],
                    events |-> Append(st.events,
                        [name |-> "error",
                         data |-> "No native libraries were extracted - check if native JARs exist in libraries"]),
                    err |-> NoNativesMessage]
              ELSE [staging |-> [kind |-> "dir", files |-> st.files],
                    events |-> Append(st.events,
                        [name |-> "natives_extracted", data |-> n]),
                    err |-> ""]

(***************************** argument substitution ************************)
ReplacementKeys ==
    {"auth_player_name", "version_name", "game_directory", "assets_root",
     "assets_index_name", "auth_uuid", "auth_access_token", "user_properties",
     "user_type"}

\* the token "${key}"
Placeholder(key) == "${" \o key \o "}"

\* strings.ReplaceAll(t, "${key}", value)
ReplaceAll(t, key, value) ==
    Flatten([i \in 1..Len(t) |-> IF t[i] = Placeholder(key) THEN value ELSE <<t[i]>>])

\* mutant: cut at every single blank, empty pieces kept
Fields_everyBlank(t) ==
    LET pieces == Split(t, " ") IN [i \in 1..Len(pieces) |-> Render(pieces[i])]

\* strings.Fields: the maximal runs between white space, as strings
Fields(t) ==
    LET pieces == Split(t, " ")
        kept == SelectSeq(pieces, LAMBDA x : x # <<>>)
    IN [i \in 1..Len(kept) |-> Render(kept[i])]

\* the range-over-map loop of parseMinecraftArguments: Go fixes no iteration
\* order, so after every key was applied once, in any order, the template is
\* one of these; level holds the templates after n steps with the keys left
RECURSIVE ReplaceInAnyOrder(_, _)
ReplaceInAnyOrder(level, replacements) ==
    IF \A s \in level : s.keys = {} THEN {s.text : s \in level}
    ELSE ReplaceInAnyOrder(
            UNION {{[text |-> ReplaceAll(s.text, k, replacements[k]),
                     keys |-> s.keys \ {k}] : k \in s.keys} : s \in level},
            replacements)

\* no value holds a placeholder: every order replaces each placeholder of the
\* template by its value and nothing else, so one pass over the tokens gives
\* the template every order ends with
PlainValues(replacements) ==
    \A k \in ReplacementKeys : \A j \in ReplacementKeys :
        \A i \in 1..Len(replacements[k]) : replacements[k][i] # Placeholder(j)

ReplaceEach(t, replacements) ==
    Flatten([i \in 1..Len(t) |->
        IF \E k \in ReplacementKeys : t[i] = Placeholder(k)
        THEN replacements[CHOOSE k \in ReplacementKeys : t[i] = Placeholder(k)]
        ELSE <<t[i]>>])

\* parseMinecraftArguments(template, replacements): the argument lists it can
\* return
parseMinecraftArguments(template, replacements) ==
    IF PlainValues(replacements)
    THEN {Fields(ReplaceEach(template, replacements))}
    ELSE {Fields(t) : t \in ReplaceInAnyOrder(
              {[text |-> template, keys |-> ReplacementKeys]}, replacements)}

(***************************** PrepareCMD ***********************************)
\* mutant: an empty argument is passed on as it is
DefaultTo_keepEmpty(value, default) == value

DefaultTo(value, default) == IF value = <<>> THEN default ELSE value

\* lines 423-441
ApplyDefaults(p) ==
    [username    |-> DefaultTo(p.username, <<"Player">>),
     javaPath    |-> DefaultTo(p.javaPath, <<"java">>),
     maxRam      |-> DefaultTo(p.maxRam, <<"2G">>),
     minRam      |-> DefaultTo(p.minRam, <<"512M">>),
     accessToken |-> DefaultTo(p.accessToken, <<"0">>),
     uuid        |-> DefaultTo(p.uuid, <<"00000000-0000-0000-0000-000000000000">>),
     extraArgs   |-> p.extraArgs,
     versionJar  |-> ""]

\* the nil error
NoError == [stage |-> "", cause |-> ""]

Failure(err) == [tag |-> "done", exe |-> "", args |-> <<>>, err |-> err]

\* lines 423-446: defaults, first event, call of loadVersionJSON
PrepareStart ==
    /\ pc = "start"
    /\ opts' = ApplyDefaults(params)
    /\ events' = Emit(events, "launch_preparation_start", version)
    /\ callArg' = version
    /\ pc' = "load"
    /\ UNCHANGED <<emitterVars, extractVars>>
    /\ UNCHANGED <<goos, ruleVars, docs, version, stack, ret, fsVars, params,
                   versionJSON, classpath, result>>

\* mutant: the archive of any other installed version is accepted in place of
\* the direct parent's
ParentArchiveFound_anyVersion(vj, os, files) ==
    \E i \in IDs : Stat(VersionJar(i, os), files)

\* lines 458-460: a parent is declared and os.Stat finds its archive
ParentArchiveFound(vj, os, files) ==
    vj.inheritsFrom # "" /\ Stat(VersionJar(vj.inheritsFrom, os), files)

\* lines 447-473: the load's outcome, then the main archive with its one-level
\* parent fallback
VerifyArchive ==
    /\ LoadFinished
    /\ ret.tag # "none"
    /\ result = NoResult
    /\ IF ret.tag = "err"
       THEN /\ events' = Emit(events, "error", ret)
            /\ result' = Failure([stage |-> "load", cause |-> ret])
            /\ pc' = "done"
            /\ UNCHANGED <<versionJSON, opts>>
       ELSE LET vj == ret.doc
                jar == VersionJar(version, goos)
                parentJar == VersionJar(vj.inheritsFrom, goos)
                loaded == Emit(events, "version_json_loaded", vj.id)
            IN /\ versionJSON' = vj
               /\ IF jar \in fsFiles \/ jar \in fsErr
                  THEN /\ opts' = [opts EXCEPT !.versionJar = jar]
                       /\ events' = loaded
                       /\ pc' = "natives"
                       /\ UNCHANGED result
                  ELSE IF ParentArchiveFound(vj, goos, fsFiles)
                  THEN /\ opts' = [opts EXCEPT !.versionJar = parentJar]
                       /\ events' = Emit(loaded, "using_parent_jar", vj.inheritsFrom)
                       /\ pc' = "natives"
                       /\ UNCHANGED result
                  ELSE LET msg == IF vj.inheritsFrom # ""
                                  THEN "version jar not found: " \o jar
                                       \o " and parent jar not found: " \o parentJar
                                  ELSE "version jar not found: " \o jar
                       IN /\ events' = Emit(loaded, "error", msg)
                          /\ result' = Failure([stage |-> "jar", cause |-> msg])
                          /\ pc' = "done"
                          /\ UNCHANGED opts
    /\ UNCHANGED <<emitterVars, extractVars>>
    /\ UNCHANGED <<goos, ruleVars, loadVars, fsVars, params, classpath>>

\* mutant: the extraction error is reported but the run goes on
ExtractNatives_continueOnError ==
    /\ pc = "natives"
    /\ LET r == extractNativesFromLibraries(staging, archives, version, goos) IN
         /\ staging' = r.staging
         /\ events' = IF r.err # ""
                      THEN Emit(events \o r.events, "error",
                                "Failed to extract natives: " \o r.err)
                      ELSE events \o r.events
    /\ pc' = "build"
    /\ UNCHANGED <<emitterVars, extractVars>>
    /\ UNCHANGED <<goos, ruleVars, loadVars, fsFiles, fsErr, archives, params, opts,
                   versionJSON, classpath, result>>

\* lines 475-481
ExtractNatives ==
    /\ pc = "natives"
    /\ LET r == extractNativesFromLibraries(staging, archives, version, goos) IN
         /\ staging' = r.staging
         /\ IF r.err # ""
            THEN /\ events' = Emit(events \o r.events, "error",
                                   "Failed to extract natives: " \o r.err)
                 /\ result' = Failure([stage |-> "natives", cause |-> r.err])
                 /\ pc' = "done"
            ELSE /\ events' = events \o r.events
                 /\ pc' = "build"
                 /\ UNCHANGED result
    /\ UNCHANGED <<emitterVars, extractVars>>
    /\ UNCHANGED <<goos, ruleVars, loadVars, fsFiles, fsErr, archives, params, opts,
                   versionJSON, classpath>>

\* lines 489-493
AssetIndexName(vj) == IF vj.assets # "" THEN vj.assets ELSE vj.assetIndex.id

\* lines 513-523
Replacements(o, v, assetIndex, os) ==
    [k \in ReplacementKeys |->
        CASE k = "auth_player_name"  -> o.username
          [] k = "version_name"      -> <<v>>
          [] k = "game_directory"    -> GameDir
          [] k = "assets_root"       -> <<Join(<<GameDir, <<"assets">>>>, os)>>
          [] k = "assets_index_name" -> IF assetIndex = "" THEN <<>> ELSE <<assetIndex>>
          [] k = "auth_uuid"         -> o.uuid
          [] k = "auth_access_token" -> o.accessToken
          [] k = "user_properties"   -> <<"{}">>
          [] k = "user_type"         -> <<"legacy">>]

\* lines 526-535
FixedGameArgs(o, v, assetIndex, os) ==
    << "--username", Render(o.username),
       "--version", v,
       "--gameDir", Render(GameDir),
       "--assetsDir", Join(<<GameDir, <<"assets">>>>, os),
       "--assetIndex", assetIndex,
       "--uuid", Render(o.uuid),
       "--accessToken", Render(o.accessToken),
       "--userType", "legacy" >>

\* mutant: a profile with structured game arguments gets those, not the fixed
\* list
GameArgs_structuredFirst(vj, o, v, os) ==
    IF vj.argumentsGame > 0
    THEN {[i \in 1..vj.argumentsGame |-> "--structured"]}
    ELSE IF vj.minecraftArguments # <<>>
    THEN parseMinecraftArguments(vj.minecraftArguments,
                                 Replacements(o, v, AssetIndexName(vj), os))
    ELSE {FixedGameArgs(o, v, AssetIndexName(vj), os)}

\* lines 510-536: the game argument lists PrepareCMD can build
GameArgs(vj, o, v, os) ==
    IF vj.minecraftArguments # <<>>
    THEN parseMinecraftArguments(vj.minecraftArguments,
                                 Replacements(o, v, AssetIndexName(vj), os))
    ELSE {FixedGameArgs(o, v, AssetIndexName(vj), os)}

\* filepath.Abs of the relative staging directory
AbsNativesDir(v, os) ==
    Join(<<<<"<cwd>">>>> \o VersionDir(v, os) \o <<<<"natives">>>>, os)

MainClassOf(vj) ==
    IF vj.mainClass = "" THEN "net.minecraft.client.main.Main" ELSE vj.mainClass

\* lines 487-548
AssembleArgs ==
    /\ pc = "assemble"
    /\ \E gameArgs \in GameArgs(versionJSON, opts, version, goos) :
         result' = [tag |-> "done",
                    exe |-> Render(opts.javaPath),
                    args |-> << "-Xmx" \o Render(opts.maxRam),
                                "-Xms" \o Render(opts.minRam),
                                "-Djava.library.path=" \o AbsNativesDir(version, goos),
                                "-cp", classpath.joined,
                                MainClassOf(versionJSON) >>
                             \o gameArgs \o opts.extraArgs,
                    err |-> NoError]
    /\ events' = Emit(events, "launch_preparation_complete",
                      [username |-> Render(opts.username), version |-> version,
                       javaPath |-> Render(opts.javaPath),
                       mainClass |-> MainClassOf(versionJSON)])
    /\ pc' = "done"
    /\ UNCHANGED <<emitterVars, extractVars>>
    /\ UNCHANGED <<goos, ruleVars, loadVars, fsVars, params, opts, versionJSON,
                   classpath>>

NextLaunch ==
    \/ PrepareStart
    \/ LoadEnter
    \/ LoadReturn
    \/ VerifyArchive
    \/ ExtractNatives
    \/ BuildClasspath
    \/ AssembleArgs

(***************************** EventEmitter *********************************)
\* events package, src/src/fabric/fabric.go: On and Emit, one action per
\* statement, called from several goroutines and from handlers
EventNames == {"e1", "e2"}
Goroutines == {"g1", "g2"}

\* a handler function; by is the Emit call inside which it was made, 0 for a
\* function of the program text
Handler(name, by) == [name |-> name, by |-> by]
NoHandler == Handler("", 0)

OnCall(event, name) == [fn |-> "On", event |-> event, handler |-> Handler(name, 0), data |-> ""]
EmitCall(event, data) == [fn |-> "Emit", event |-> event, handler |-> NoHandler, data |-> data]

\* sync.RWMutex: the goroutine holding the write lock, the goroutines holding
\* a read lock, and the goroutines whose Lock call waits for the readers
FreeMutex == [writer |-> "", readers |-> {}, pending |-> {}]

\* New()
NoListeners == [e \in EventNames |-> <<>>]

Idle == [todo |-> <<>>, stack |-> <<>>]

EmitterIdle ==
    /\ listeners = NoListeners
    /\ mu = FreeMutex
    /\ goroutines = [g \in Goroutines |-> Idle]
    /\ history = <<>>

\* a frame of a goroutine's call stack
Frame(fn, at, event, handler, data, id) ==
    [fn |-> fn, at |-> at, event |-> event, handler |-> handler, data |-> data,
     id |-> id, handlers |-> <<>>, i |-> 0]

Record(op, id, event, handler, data) ==
    [op |-> op, id |-> id, event |-> event, handler |-> handler, data |-> data]

Stack(g) == goroutines[g].stack
Top(g) == Stack(g)[Len(Stack(g))]
Running(g, fn, at) == Stack(g) # <<>> /\ Top(g).fn = fn /\ Top(g).at = at

Pushed(frames, frame) == Append(frames, frame)
Popped(frames) == SubSeq(frames, 1, Len(frames) - 1)
Replaced(frames, frame) == Append(Popped(frames), frame)

\* the frame a call of On or Emit starts with; an Emit call is numbered by
\* its place in the history
Entered(call) ==
    IF call.fn = "On"
    THEN Frame("On", "Lock", call.event, call.handler, "", 0)
    ELSE Frame("Emit", "RLock", call.event, NoHandler, call.data, Len(history) + 1)

Noted(call) ==
    IF call.fn = "Emit"
    THEN Append(history, Record("emit", Len(history) + 1, call.event, NoHandler, call.data))
    ELSE history

\* the goroutine's next statement: a call of On or Emit
Go(g) ==
    /\ Stack(g) = <<>>
    /\ goroutines[g].todo # <<>>
    /\ LET call == Head(goroutines[g].todo) IN
         /\ goroutines' = [goroutines EXCEPT ![g] =
                              [todo |-> Tail(@.todo), stack |-> <<Entered(call)>>]]
         /\ history' = Noted(call)
    /\ UNCHANGED <<listeners, mu>>
    /\ UNCHANGED <<launcherVars, extractVars>>

\* On: e.mu.Lock() is called; new read locks wait from now on
OnLock(g) ==
    /\ Running(g, "On", "Lock")
    /\ mu' = [mu EXCEPT !.pending = @ \cup {g}]
    /\ goroutines' = [goroutines EXCEPT ![g].stack =
                         Replaced(@, [Top(g) EXCEPT !.at = "locking"])]
    /\ UNCHANGED <<listeners, history>>
    /\ UNCHANGED <<launcherVars, extractVars>>

\* mutant: the write lock is granted whoever holds the lock
OnLocked_noExclusion(g) ==
    /\ Running(g, "On", "locking")
    /\ mu' = [mu EXCEPT !.writer = g, !.pending = @ \ {g}]
    /\ goroutines' = [goroutines EXCEPT ![g].stack =
                         Replaced(@, [Top(g) EXCEPT !.at = "append"])]
    /\ UNCHANGED <<listeners, history>>
    /\ UNCHANGED <<launcherVars, extractVars>>

\* e.mu.Lock() returns once no goroutine holds the lock
OnLocked(g) ==
    /\ Running(g, "On", "locking")
    /\ mu.writer = ""
    /\ mu.readers = {}
    /\ mu' = [mu EXCEPT !.writer = g, !.pending = @ \ {g}]
    /\ goroutines' = [goroutines EXCEPT ![g].stack =
                         Replaced(@, [Top(g) EXCEPT !.at = "append"])]
    /\ UNCHANGED <<listeners, history>>
    /\ UNCHANGED <<launcherVars, extractVars>>

\* append(e.listeners[event], handler): the list is read and extended
OnAppend(g) ==
    /\ Running(g, "On", "append")
    /\ goroutines' = [goroutines EXCEPT ![g].stack =
                         Replaced(@, [Top(g) EXCEPT
                             !.handlers = Append(listeners[Top(g).event], Top(g).handler),
                             !.at = "store"])]
    /\ UNCHANGED <<listeners, mu, history>>
    /\ UNCHANGED <<launcherVars, extractVars>>

\* e.listeners[event] = ...: the extended list is stored in the map
OnStore(g) ==
    /\ Running(g, "On", "store")
    /\ listeners' = [listeners EXCEPT ![Top(g).event] = Top(g).handlers]
    /\ goroutines' = [goroutines EXCEPT ![g].stack =
                         Replaced(@, [Top(g) EXCEPT !.at = "Unlock"])]
    /\ UNCHANGED <<mu, history>>
    /\ UNCHANGED <<launcherVars, extractVars>>

\* the deferred e.mu.Unlock(), and On returns
OnUnlock(g) ==
    /\ Running(g, "On", "Unlock")
    /\ mu' = [mu EXCEPT !.writer = ""]
    /\ goroutines' = [goroutines EXCEPT ![g].stack = Popped(@)]
    /\ history' = Append(history,
                         Record("registered", 0, Top(g).event, Top(g).handler, ""))
    /\ UNCHANGED listeners
    /\ UNCHANGED <<launcherVars, extractVars>>

\* Emit: e.mu.RLock() returns when no goroutine holds or awaits the write lock
EmitRLock(g) ==
    /\ Running(g, "Emit", "RLock")
    /\ mu.writer = ""
    /\ mu.pending = {}
    /\ mu' = [mu EXCEPT !.readers = @ \cup {g}]
    /\ goroutines' = [goroutines EXCEPT ![g].stack =
                         Replaced(@, [Top(g) EXCEPT !.at = "read"])]
    /\ UNCHANGED <<listeners, history>>
    /\ UNCHANGED <<launcherVars, extractVars>>

\* handlers := e.listeners[event]
EmitRead(g) ==
    /\ Running(g, "Emit", "read")
    /\ goroutines' = [goroutines EXCEPT ![g].stack =
                         Replaced(@, [Top(g) EXCEPT !.handlers = listeners[Top(g).event],
                                                    !.at = "RUnlock"])]
    /\ UNCHANGED <<listeners, mu, history>>
    /\ UNCHANGED <<launcherVars, extractVars>>

\* mutant: the read lock is kept while the handlers run
EmitRUnlock_keep(g) ==
    /\ Running(g, "Emit", "RUnlock")
    /\ goroutines' = [goroutines EXCEPT ![g].stack =
                         Replaced(@, [Top(g) EXCEPT !.at = "range", !.i = 1])]
    /\ UNCHANGED <<listeners, mu, history>>
    /\ UNCHANGED <<launcherVars, extractVars>>

\* e.mu.RUnlock()
EmitRUnlock(g) ==
    /\ Running(g, "Emit", "RUnlock")
    /\ mu' = [mu EXCEPT !.readers = @ \ {g}]
    /\ goroutines' = [goroutines EXCEPT ![g].stack =
                         Replaced(@, [Top(g) EXCEPT !.at = "range", !.i = 1])]
    /\ UNCHANGED <<listeners, history>>
    /\ UNCHANGED <<launcherVars, extractVars>>

\* for _, handler := range handlers { handler(data) }: the next handler is called
EmitNext(g) ==
    /\ Running(g, "Emit", "range")
    /\ Top(g).i <= Len(Top(g).handlers)
    /\ LET emit == Top(g)
           h == emit.handlers[emit.i] IN
         /\ goroutines' = [goroutines EXCEPT ![g].stack =
                Pushed(Replaced(@, [emit EXCEPT !.i = @ + 1]),
                       Frame("handler", "body", emit.event, h, emit.data, emit.id))]
         /\ history' = Append(history, Record("call", emit.id, emit.event, h, emit.data))
    /\ UNCHANGED <<listeners, mu>>
    /\ UNCHANGED <<launcherVars, extractVars>>

\* the range is over, and Emit returns
EmitReturn(g) ==
    /\ Running(g, "Emit", "range")
    /\ Top(g).i > Len(Top(g).handlers)
    /\ goroutines' = [goroutines EXCEPT ![g].stack = Popped(@)]
    /\ history' = Append(history, Record("returned", Top(g).id, Top(g).event, NoHandler,
                                         Top(g).data))
    /\ UNCHANGED <<listeners, mu>>
    /\ UNCHANGED <<launcherVars, extractVars>>

\* what a handler does with the emitter it was registered on: a registrar
\* registers a new function for e1, a relay emits e2, any other does nothing
CallOf(frame) ==
    CASE frame.handler.name = "registrar" ->
            [fn |-> "On", event |-> "e1", handler |-> Handler("late", frame.id), data |-> ""]
      [] frame.handler.name = "relay" -> EmitCall("e2", frame.data)
      [] OTHER -> [fn |-> "", event |-> "", handler |-> NoHandler, data |-> ""]

\* the handler's body runs up to its call of On or Emit, if it makes one
HandlerBody(g) ==
    /\ Running(g, "handler", "body")
    /\ LET call == CallOf(Top(g)) IN
         IF call.fn = ""
         THEN /\ goroutines' = [goroutines EXCEPT ![g].stack = Popped(@)]
              /\ UNCHANGED history
         ELSE /\ goroutines' = [goroutines EXCEPT ![g].stack =
                     Pushed(Replaced(@, [Top(g) EXCEPT !.at = "return"]), Entered(call))]
              /\ history' = Noted(call)
    /\ UNCHANGED <<listeners, mu>>
    /\ UNCHANGED <<launcherVars, extractVars>>

\* the handler returns to the range loop
HandlerReturn(g) ==
    /\ Running(g, "handler", "return")
    /\ goroutines' = [goroutines EXCEPT ![g].stack = Popped(@)]
    /\ UNCHANGED <<listeners, mu, history>>
    /\ UNCHANGED <<launcherVars, extractVars>>

(***************************** concurrent calls *****************************)
\* PrepareCMD called by several goroutines on one installation. The steps
\* that read or write versions/<id>/natives are one action each; the steps
\* before and after them read files that no call writes.
Callers == {"c1", "c2", "c3"}

ExtractIdle ==
    /\ invocations = <<>>
    /\ nativesDirs = <<>>
    /\ nativesBefore = <<>>

\* a file's bytes are the chunks io.Copy has written, "" where none was
Chunks == {1, 2}
LastChunk == CHOOSE n \in Chunks : \A m \in Chunks : m <= n
Chunk(content, n) == content \o (IF n = LastChunk THEN "[end]" ELSE "[begin]")
Whole(content) == [n \in Chunks |-> Chunk(content, n)]

\* the bytes after a write of one chunk at the writer's offset
WriteAt(bytes, n, chunk) ==
    [k \in 1..(IF Len(bytes) > n THEN Len(bytes) ELSE n) |->
        IF k = n THEN chunk ELSE IF k <= Len(bytes) THEN bytes[k] ELSE ""]

\* the directory with file name created or truncated, then holding bytes
WithFile(dir, name, bytes) ==
    [kind |-> dir.kind,
     files |-> {f \in dir.files : f.name # name} \cup {[name |-> name, bytes |-> bytes]}]

BytesOf(dir, name) == (CHOOSE f \in dir.files : f.name = name).bytes

\* loadVersionJSON as one call: what it returns when at most depth parents
\* are followed
RECURSIVE Resolved(_, _, _)
Resolved(v, ds, depth) ==
    IF ds[v].kind = "missing" THEN ReadError(v)
    ELSE IF ds[v].kind = "malformed" THEN ParseError(v)
    ELSE IF ds[v].inheritsFrom = "" THEN [tag |-> "ok", doc |-> ds[v]]
    ELSE IF depth = 0 THEN NoValue
    ELSE LET parent == ds[v].inheritsFrom
             r == Resolved(parent, ds, depth - 1) IN
         IF r.tag = "none" THEN r
         ELSE IF r.tag = "err" THEN WrapParentError(r, parent)
         ELSE [tag |-> "ok", doc |-> MergeParent(ds[v], r.doc)]

\* PrepareCMD lines 455-473: "" when a main archive was found, the error if not
ArchiveError(v, vj, os, files, errs) ==
    LET jar == VersionJar(v, os) IN
    IF jar \in files \/ jar \in errs THEN ""
    ELSE IF ParentArchiveFound(vj, os, files) THEN ""
    ELSE IF vj.inheritsFrom # ""
    THEN "version jar not found: " \o jar \o " and parent jar not found: "
             \o VersionJar(vj.inheritsFrom, os)
    ELSE "version jar not found: " \o jar

\* PrepareCMD lines 483-548: what it can return once the natives are staged
Commands(o, v, vj, os, files) ==
    LET cp == buildClasspath(v, vj, os, files) IN
    {[tag |-> "done",
      exe |-> Render(o.javaPath),
      args |-> << "-Xmx" \o Render(o.maxRam),
                  "-Xms" \o Render(o.minRam),
                  "-Djava.library.path=" \o AbsNativesDir(v, os),
                  "-cp", cp.joined,
                  MainClassOf(vj) >>
               \o gameArgs \o o.extraArgs,
      err |-> NoError] : gameArgs \in GameArgs(vj, o, v, os)}

\* a call of PrepareCMD that has not begun
Invocation(v) ==
    [version |-> v, at |-> "start", vj |-> EmptyDoc(""), k |-> 0, i |-> 0, off |-> 0,
     events |-> <<>>, result |-> NoResult,
     created |-> {}, wrote |-> {}, sawIncomplete |-> FALSE, during |-> {}]

At(c, at) == invocations[c].at = at

\* the callers in the middle of a call when c returns
Others(c) == {d \in Callers \ {c} : invocations[d].at \notin {"start", "done"}}

Returned(c, value) ==
    [invocations[c] EXCEPT !.at = "done", !.result = value, !.during = Others(c)]

\* the staging directory of caller c: line 476
DirOf(c) == NativesDir(invocations[c].version, goos)

Archive(c) == archives[invocations[c].k]
ArchiveEntry(c) == Archive(c).entries[invocations[c].i]
Target(c) == Base(ArchiveEntry(c).name, goos)

\* lines 423-473: defaults, profile and main archive
Prepare(c) ==
    /\ At(c, "start")
    /\ LET v == invocations[c].version
           r == Resolved(v, docs, MaxDepth) IN
         /\ r.tag # "none"
         /\ IF r.tag = "err"
            THEN invocations' = [invocations EXCEPT ![c] =
                                    Returned(c, Failure([stage |-> "load", cause |-> r]))]
            ELSE LET msg == ArchiveError(v, r.doc, goos, fsFiles, fsErr) IN
                 IF msg # ""
                 THEN invocations' = [invocations EXCEPT ![c] =
                                         Returned(c, Failure([stage |-> "jar", cause |-> msg]))]
                 ELSE invocations' = [invocations EXCEPT ![c].at = "MkdirAll",
                                                         ![c].vj = r.doc]
    /\ UNCHANGED <<nativesDirs, nativesBefore>>
    /\ UNCHANGED <<launcherVars, emitterVars>>

\* os.MkdirAll(nativesDir, 0o755), lines 170-172
MkdirAll(c) ==
    /\ At(c, "MkdirAll")
    /\ IF nativesDirs[DirOf(c)].kind = "file"
       THEN /\ invocations' = [invocations EXCEPT ![c] =
                   Returned(c, Failure([stage |-> "natives", cause |-> "mkdir"]))]
            /\ UNCHANGED nativesDirs
       ELSE /\ nativesDirs' = [nativesDirs EXCEPT ![DirOf(c)].kind = "dir"]
            /\ invocations' = [invocations EXCEPT ![c].at = "ReadDir",
                                                  ![c].wrote = @ \cup {DirOf(c)}]
    /\ UNCHANGED nativesBefore
    /\ UNCHANGED <<launcherVars, emitterVars>>

\* some chunk of the file is not written
Incomplete(bytes) ==
    Len(bytes) < LastChunk \/ \E k \in 1..Len(bytes) : bytes[k] = ""

\* lines 175-200: the listing of the directory, the test for a native file in
\* it, and the platform's pattern
NativesListed(c) ==
    LET listed == nativesDirs[DirOf(c)].files
        start == Emit(invocations[c].events, "extracting_natives_start",
                      Join(LibDir(goos), goos)) IN
    IF HasNativeFile(listed)
    THEN invocations' = [invocations EXCEPT
            ![c].at = "build",
            ![c].events = Emit(@, "natives_already_extracted", DirOf(c)),
            ![c].sawIncomplete =
                \E f \in listed : HasNativeSuffix(f.name) /\ Incomplete(f.bytes)]
    ELSE IF goos \notin {"windows", "darwin", "linux"}
    THEN invocations' = [invocations EXCEPT ![c] =
            [Returned(c, Failure([stage |-> "natives",
                                  cause |-> "unsupported platform: " \o goos]))
                EXCEPT !.events = start]]
    ELSE invocations' = [invocations EXCEPT ![c].at = "walk", ![c].k = 1,
                                            ![c].events = start]

\* mutant: a call that finds another call extracting into the directory
\* leaves the extraction to it
ReadDir_defer(c) ==
    /\ At(c, "ReadDir")
    /\ IF \E d \in Callers \ {c} :
             /\ invocations[d].version = invocations[c].version
             /\ invocations[d].at \in {"walk", "entry", "create", "copy", "count"}
       THEN invocations' = [invocations EXCEPT
               ![c].at = "build",
               ![c].events = Emit(@, "natives_already_extracted", DirOf(c))]
       ELSE NativesListed(c)
    /\ UNCHANGED <<nativesDirs, nativesBefore>>
    /\ UNCHANGED <<launcherVars, emitterVars>>

\* os.ReadDir(nativesDir) and what follows from it
ReadDir(c) ==
    /\ At(c, "ReadDir")
    /\ NativesListed(c)
    /\ UNCHANGED <<nativesDirs, nativesBefore>>
    /\ UNCHANGED <<launcherVars, emitterVars>>

\* lines 203-216 and 69-73: the walk reaches the next file under libraries/
\* and opens it when its name marks it as native
Walk(c) ==
    /\ At(c, "walk")
    /\ LET k == invocations[c].k IN
         IF k > Len(archives)
         THEN invocations' = [invocations EXCEPT ![c].at = "count"]
         ELSE LET jar == archives[k] IN
              IF jar.name = <<>> \/ jar.name[Len(jar.name)] # ".jar"
              THEN invocations' = [invocations EXCEPT ![c].k = k + 1]
              ELSE IF ContainsPattern(jar.name, "natives-" \o getOSName(goos))
                      \/ ContainsPattern(jar.name, "natives")
              THEN invocations' = [invocations EXCEPT
                      ![c].events = Emit(@, "native_jar_processing", Render(jar.name)),
                      ![c].at = IF jar.readable THEN "entry" ELSE "walk",
                      ![c].k = IF jar.readable THEN k ELSE k + 1,
                      ![c].i = 1]
              ELSE invocations' = [invocations EXCEPT ![c].k = k + 1]
    /\ UNCHANGED <<nativesDirs, nativesBefore>>
    /\ UNCHANGED <<launcherVars, emitterVars>>

\* lines 75-99: the next entry, its filters, and os.Stat on its target
EntryStat(c) ==
    /\ At(c, "entry")
    /\ IF invocations[c].i > Len(Archive(c).entries)
       THEN invocations' = [invocations EXCEPT ![c].at = "walk", ![c].k = @ + 1]
       ELSE LET f == ArchiveEntry(c)
                skip == \/ f.dir
                        \/ (Len(f.name) >= 2 /\ f.name[1] = "META-INF" /\ f.name[2] = "/")
                        \/ ~HasNativeSuffix(f.name)
                        \/ FileExists(nativesDirs[DirOf(c)].files, Target(c))
            IN invocations' = [invocations EXCEPT
                  ![c].at = IF skip THEN "entry" ELSE "create",
                  ![c].i = IF skip THEN @ + 1 ELSE @]
    /\ UNCHANGED <<nativesDirs, nativesBefore>>
    /\ UNCHANGED <<launcherVars, emitterVars>>

\* lines 101-110: f.Open() and os.Create(destPath), which empties a file that
\* is there
EntryCreate(c) ==
    /\ At(c, "create")
    /\ IF ArchiveEntry(c).read = "openfail"
       THEN /\ invocations' = [invocations EXCEPT ![c].at = "entry", ![c].i = @ + 1]
            /\ UNCHANGED nativesDirs
       ELSE /\ nativesDirs' = [nativesDirs EXCEPT ![DirOf(c)] = WithFile(@, Target(c), <<>>)]
            /\ invocations' = [invocations EXCEPT
                  ![c].at = "copy", ![c].off = 1,
                  ![c].created = @ \cup {Target(c)},
                  ![c].wrote = @ \cup {DirOf(c)}]
    /\ UNCHANGED nativesBefore
    /\ UNCHANGED <<launcherVars, emitterVars>>

\* lines 112-118: io.Copy writes the next chunk at this writer's offset; after
\* the last one, or when the read fails, both files are closed
EntryCopy(c) ==
    /\ At(c, "copy")
    /\ LET f == ArchiveEntry(c)
           n == invocations[c].off
           dir == nativesDirs[DirOf(c)] IN
         /\ nativesDirs' = [nativesDirs EXCEPT ![DirOf(c)] =
                WithFile(dir, Target(c),
                         WriteAt(BytesOf(dir, Target(c)), n, Chunk(f.content, n)))]
         /\ IF f.read = "copyfail"
            THEN invocations' = [invocations EXCEPT ![c].at = "entry", ![c].i = @ + 1,
                                                    ![c].wrote = @ \cup {DirOf(c)}]
            ELSE IF n = LastChunk
            THEN invocations' = [invocations EXCEPT
                    ![c].at = "entry", ![c].i = @ + 1,
                    ![c].events = Emit(@, "native_extracted", Render(Target(c))),
                    ![c].wrote = @ \cup {DirOf(c)}]
            ELSE invocations' = [invocations EXCEPT ![c].off = n + 1,
                                                    ![c].wrote = @ \cup {DirOf(c)}]
    /\ UNCHANGED nativesBefore
    /\ UNCHANGED <<launcherVars, emitterVars>>

\* lines 219-241: the directory is listed again and its native files counted
Count(c) ==
    /\ At(c, "count")
    /\ LET n == NativeCount(nativesDirs[DirOf(c)].files) IN
         IF n = 0
         THEN invocations' = [invocations EXCEPT ![c] =
                 [Returned(c, Failure([stage |-> "natives", cause |-> NoNativesMessage]))
                     EXCEPT !.events = Emit(@, "error",
                         "No native libraries were extracted - check if native JARs exist in libraries")]]
         ELSE invocations' = [invocations EXCEPT
                 ![c].at = "build",
                 ![c].events = Emit(@, "natives_extracted", n)]
    /\ UNCHANGED <<nativesDirs, nativesBefore>>
    /\ UNCHANGED <<launcherVars, emitterVars>>

\* lines 483-548: classpath, arguments, return
Finish(c) ==
    /\ At(c, "build")
    /\ \E command \in Commands(ApplyDefaults(params), invocations[c].version,
                               invocations[c].vj, goos, fsFiles) :
          invocations' = [invocations EXCEPT ![c] = Returned(c, command)]
    /\ UNCHANGED <<nativesDirs, nativesBefore>>
    /\ UNCHANGED <<launcherVars, emitterVars>>

(***************************** SpecRules ************************************)
InitRules ==
    /\ EmitterIdle
    /\ ExtractIdle
    /\ goos \in GOOSValues
    /\ rules \in SeqsUpTo(Rule, MaxRules)
    /\ ruleResult = FALSE
    /\ pc = "rules"
    /\ LoadIdle
    /\ events = <<>>
    /\ FsIdle
    /\ LaunchIdle

EvaluateRules ==
    /\ pc = "rules"
    /\ ruleResult' = shouldIncludeLibrary(rules, goos)
    /\ pc' = "evaluated"
    /\ UNCHANGED <<emitterVars, extractVars>>
    /\ UNCHANGED <<goos, rules, loadVars, events, fsVars, launchVars>>

NextRules == EvaluateRules

SpecRules == InitRules /\ [][NextRules]_vars

HasMatchingDeny ==
    \E i \in 1..Len(rules) :
        rules[i].action = "disallow" /\ RuleMatches(rules[i], getOSName(goos))

HasMatchingAllow ==
    \E i \in 1..Len(rules) :
        rules[i].action = "allow" /\ RuleMatches(rules[i], getOSName(goos))

\* C4: a rule sequence holding a deny rule that is unscoped or scoped to the
\* current platform evaluates to false, wherever the rule stands and whatever
\* allow rules surround it.
C4_DenyIsAbsoluteVeto ==
    (pc = "evaluated" /\ HasMatchingDeny) => ruleResult = FALSE

\* an evaluated sequence whose matching deny comes last, after a matching allow
C4_Witness ==
    /\ pc = "evaluated"
    /\ Len(rules) >= 2
    /\ rules[Len(rules)].action = "disallow"
    /\ RuleMatches(rules[Len(rules)], getOSName(goos))
    /\ rules[1].action = "allow"
    /\ RuleMatches(rules[1], getOSName(goos))
    /\ rules[1].os # ""
    /\ ruleResult = FALSE

\* C5: the result is true exactly when the sequence is empty, or no deny rule
\* matches the platform and at least one allow rule does.
C5_ResultCharacterised ==
    pc = "evaluated" =>
        (ruleResult = TRUE <=>
            (Len(rules) = 0 \/ (~HasMatchingDeny /\ HasMatchingAllow)))

\* an evaluated non-empty sequence in which nothing matches: excluded
C5_Witness ==
    /\ pc = "evaluated"
    /\ Len(rules) > 0
    /\ ~HasMatchingDeny
    /\ ~HasMatchingAllow
    /\ \E i \in 1..Len(rules) : rules[i].action = "allow"
    /\ ruleResult = FALSE

(***************************** SpecResolve **********************************)
\* the library declarations the profile documents draw from
LibNames == {<<"g", ":", "a", ":", "1">>, <<"h", ":", "b", ":", "2">>}
PlainLibs == {[name |-> n, path |-> <<>>, rules |-> <<>>] : n \in LibNames}

ResolveDocs(id) ==
    {MissingDoc, MalformedDoc} \cup
    {[EmptyDoc(id) EXCEPT !.mainClass = m, !.inheritsFrom = p, !.libraries = l] :
        m \in {"", "Main" \o id}, p \in {""} \cup IDs,
        l \in SeqsUpTo(PlainLibs, MaxLibs)}

InitResolve ==
    /\ EmitterIdle
    /\ ExtractIdle
    /\ goos = "linux"
    /\ RulesIdle
    /\ \E a \in ResolveDocs("A"), b \in ResolveDocs("B"), c \in ResolveDocs("C") :
           docs = DocsOf(a, b, c)
    /\ version \in IDs
    /\ callArg = version
    /\ stack = <<>>
    /\ ret = NoValue
    /\ events = <<>>
    /\ FsIdle
    /\ LaunchIdle
    /\ pc = "load"

NextResolve == LoadEnter \/ LoadReturn

SpecResolve == InitResolve /\ [][NextResolve]_vars

\* the ids from v toward the root, while documents exist and are well formed,
\* visiting at most n documents
RECURSIVE ChainFrom(_, _)
ChainFrom(v, n) ==
    IF n = 0 \/ v = "" THEN <<>>
    ELSE IF docs[v].kind # "ok" THEN <<v>>
    ELSE <<v>> \o ChainFrom(docs[v].inheritsFrom, n - 1)

Chain(v) == ChainFrom(v, Cardinality(IDs) + 1)

\* the chain from v is acyclic and all its documents exist and are well formed
ChainResolvable(v) ==
    /\ Len(Chain(v)) <= Cardinality(IDs)
    /\ \A k \in 1..Len(Chain(v)) : docs[Chain(v)[k]].kind = "ok"

\* own libraries of the chain's documents, root first
RECURSIVE LibsRootFirst(_)
LibsRootFirst(chain) ==
    IF chain = <<>> THEN <<>>
    ELSE LibsRootFirst(Tail(chain)) \o docs[Head(chain)].libraries

RECURSIVE FirstMainClass(_)
FirstMainClass(chain) ==
    IF chain = <<>> THEN ""
    ELSE IF docs[Head(chain)].mainClass # "" THEN docs[Head(chain)].mainClass
    ELSE FirstMainClass(Tail(chain))

\* C1: for an acyclic chain of existing, well-formed documents the resolved
\* libraries are the documents' own libraries concatenated root first, every
\* entry kept in order, nothing deduplicated.
C1_LibrariesRootFirst ==
    (LoadFinished /\ ChainResolvable(version)) =>
        /\ ret.tag = "ok"
        /\ ret.doc.libraries = LibsRootFirst(Chain(version))

\* a three-document chain resolved, all three declaring the same library
C1_Witness ==
    /\ LoadFinished
    /\ ChainResolvable(version)
    /\ Len(Chain(version)) = 3
    /\ \A i \in IDs : Len(docs[i].libraries) = 1
    /\ docs["A"].libraries = docs["B"].libraries
    /\ docs["B"].libraries # docs["C"].libraries
    /\ Len(ret.doc.libraries) = 3

\* C2: the resolved mainClass is that of the first document, from the
\* requested profile toward the root, whose mainClass is non-empty.
C2_MainClassFirstNonEmpty ==
    (LoadFinished /\ ChainResolvable(version)) =>
        /\ ret.tag = "ok"
        /\ ret.doc.mainClass = FirstMainClass(Chain(version))

\* a three-document chain whose leaf has no mainClass while both ancestors do
C2_Witness ==
    /\ LoadFinished
    /\ ChainResolvable(version)
    /\ Len(Chain(version)) = 3
    /\ docs[Chain(version)[1]].mainClass = ""
    /\ docs[Chain(version)[2]].mainClass # ""
    /\ docs[Chain(version)[3]].mainClass # ""
    /\ ret.doc.mainClass = docs[Chain(version)[2]].mainClass

\* the running call goes on executing: its goroutine is always scheduled
SpecResolveFair == InitResolve /\ [][NextResolve]_vars /\ WF_vars(NextResolve)

\* following inheritsFrom from v comes back to a document already visited,
\* every document on the way existing and well formed
CycleReached(v) == Len(Chain(v)) > Cardinality(IDs)

\* C21: a call on an acyclic chain eventually returns, a profile or an error;
\* a call whose chain runs into a cycle of existing, well-formed documents
\* never returns anything.
C21_ReturnsUnlessCyclic ==
    /\ ~CycleReached(version) => <>(LoadFinished /\ ret.tag \in {"ok", "err"})
    /\ [](CycleReached(version) => (ret = NoValue /\ ~LoadFinished))

\* a cyclic chain: calls nested to the depth followed here, one version
\* entered a second time, nothing returned
C21_Witness ==
    /\ CycleReached(version)
    /\ Len(stack) = MaxDepth
    /\ \E j, k \in 1..Len(stack) : j < k /\ stack[j].version = stack[k].version
    /\ ret = NoValue

\* the version_merged events emitted so far, in order
MergedEvents ==
    LET idx == {i \in 1..Len(events) : events[i].name = "version_merged"}
        nth[k \in 1..Cardinality(idx)] ==
            CHOOSE i \in idx : Cardinality({j \in idx : j <= i}) = k
    IN [k \in 1..Cardinality(idx) |-> events[nth[k]].data]

\* the merges of a resolved chain, the one nearest the root first
MergesRootFirst(chain) ==
    [k \in 1..(Len(chain) - 1) |->
        [child |-> chain[Len(chain) - k], parent |-> chain[Len(chain) - k + 1]]]

\* some document on the acyclic chain from v is missing or malformed
ChainBroken(v) ==
    /\ ~CycleReached(v)
    /\ \E k \in 1..Len(Chain(v)) : docs[Chain(v)[k]].kind # "ok"

\* C25: a finished resolution of an acyclic chain of n well-formed documents
\* has emitted exactly the n-1 version_merged events of its merges, each
\* naming a child and its direct parent, the merge nearest the root first;
\* none for a profile without parent, none when a parent failed to resolve.
C25_OneMergedEventPerMerge ==
    LoadFinished =>
        /\ ChainResolvable(version) => MergedEvents = MergesRootFirst(Chain(version))
        /\ ChainBroken(version) => MergedEvents = <<>>

\* a chain of three resolved: two events, the merge into the child of the root first
C25_Witness ==
    /\ LoadFinished
    /\ ChainResolvable(version)
    /\ Len(Chain(version)) = 3
    /\ Len(MergedEvents) = 2
    /\ MergedEvents[1].parent = Chain(version)[3]
    /\ MergedEvents[2].child = version

\* the first document of the chain that is missing or malformed
FirstBroken(chain) ==
    CHOOSE k \in 1..Len(chain) :
        docs[chain[k]].kind # "ok" /\ \A j \in 1..(k - 1) : docs[chain[j]].kind = "ok"

\* C26: a finished resolution of an acyclic chain returns an error exactly
\* when a document of the chain is missing or malformed; the error is that
\* document's read or parse failure wrapped once per level with the parent
\* named there, and it carries no profile; otherwise the whole chain is merged.
C26_ErrorIffChainBroken ==
    (LoadFinished /\ ~CycleReached(version)) =>
        /\ ret.tag = "err" <=> ChainBroken(version)
        /\ ret.tag \in {"ok", "err"}
        /\ ChainBroken(version) =>
              LET chain == Chain(version)
                  m == FirstBroken(chain) IN
              /\ DOMAIN ret = {"tag", "cause", "at", "wraps"}
              /\ ret.at = chain[m]
              /\ ret.cause = IF docs[chain[m]].kind = "missing" THEN "read" ELSE "parse"
              /\ ret.wraps = SubSeq(chain, 2, m)
        /\ ~ChainBroken(version) =>
              /\ ret.doc.libraries = LibsRootFirst(Chain(version))
              /\ ret.doc.id = version

\* the grandparent of the requested profile is malformed: two wrappings
C26_Witness ==
    /\ LoadFinished
    /\ ~CycleReached(version)
    /\ Len(Chain(version)) = 3
    /\ docs[Chain(version)[3]].kind = "malformed"
    /\ ret.tag = "err"
    /\ Len(ret.wraps) = 2

(***************************** SpecClasspath ********************************)
\* library names: a dotted group, the same group written with slashes, a
\* coordinate of two parts, and no name
NameDotted == <<"net", ".", "fab", ":", "loader", ":", "1">>
NameSlashed == <<"net", "/", "fab", ":", "loader", ":", "1">>
NameShort == <<"opti", ":", "fine">>
CpNames == {NameDotted, NameSlashed, NameShort, <<>>}

\* downloads.artifact.path: absent, or one relative path
ArtifactPath == <<"p", "/", "x", ".jar">>
CpPaths == {<<>>, ArtifactPath}

\* rules: none, or excluded on linux
CpRules == {<<>>, <<[action |-> "disallow", os |-> "linux"]>>}

\* every name without artifact path, and the dotted coordinate also with
\* one and under the rule
CpLibs ==
    [name : CpNames, path : {<<>>}, rules : {<<>>}]
    \cup [name : {NameDotted}, path : CpPaths, rules : CpRules]

\* libraries/g1/g2/artifact/version/artifact-version.jar for coordinate
\* g1.g2:artifact:version: every group segment a directory
MavenPath(name, os) ==
    LET parts == Split(name, ":")
        groupDirs == Split(parts[1], ".")
        file == parts[2] \o <<"-">> \o parts[3] \o <<".jar">>
    IN Join(LibDir(os) \o groupDirs \o <<parts[2], parts[3], file>>, os)

\* the files that may exist: the patterns of the dotted coordinate, its Maven
\* location, the artifact path and the version's main archive
CpUniverse(v, os) ==
    {possiblePaths([name |-> NameDotted], v, os)[k] : k \in 1..4}
    \cup {MavenPath(NameDotted, os),
          Join(LibDir(os) \o <<FromSlash(ArtifactPath, os)>>, os),
          VersionJar(v, os)}

\* buildClasspath about to be called on a profile whose libraries are one of
\* libSeqs
ClasspathCall(libSeqs) ==
    /\ EmitterIdle
    /\ ExtractIdle
    /\ goos \in {"linux", "windows"}
    /\ RulesIdle
    /\ docs = [i \in IDs |-> MissingDoc]
    /\ version = "C"
    /\ callArg = ""
    /\ stack = <<>>
    /\ ret = NoValue
    /\ events = <<>>
    /\ fsFiles \in SUBSET CpUniverse(version, goos)
    /\ fsErr = {}
    /\ staging = [kind |-> "absent", files |-> {}]
    /\ archives = <<>>
    /\ params = NoParams
    /\ opts = NoParams
    /\ \E libs \in libSeqs :
           versionJSON = [EmptyDoc(version) EXCEPT !.libraries = libs]
    /\ classpath = NoClasspath
    /\ result = NoResult
    /\ pc = "build"

InitClasspath == ClasspathCall(SeqsUpTo(CpLibs, MaxCpLibs))

NextClasspath == BuildClasspath

SpecClasspath == InitClasspath /\ [][NextClasspath]_vars

Built == pc = "assemble"

Applicable(lib) == shouldIncludeLibrary(lib.rules, goos)

HasCoordinate(lib) == Len(Split(lib.name, ":")) >= 3

\* the candidates (a)-(d) as the specification lists them
Candidates(lib) ==
    LET parts == Split(lib.name, ":")
        file == parts[2] \o <<"-">> \o parts[3] \o <<".jar">>
        depRoot == <<GameDir, <<"libraries">>>>
        versionDir == <<GameDir, <<"versions">>, <<version>>>>
        group == FromSlash(parts[1], goos)
    IN << Join(versionDir \o <<file>>, goos),
          Join(depRoot \o <<group, parts[2], parts[3], file>>, goos),
          Join(depRoot \o <<group, parts[2], file>>, goos),
          Join(versionDir \o <<lib.name \o <<".jar">>>>, goos) >>

SomeCandidateExists(lib) == \E k \in 1..4 : Candidates(lib)[k] \in fsFiles

FirstCandidate(lib) ==
    Candidates(lib)[CHOOSE k \in 1..4 :
        /\ Candidates(lib)[k] \in fsFiles
        /\ \A j \in 1..(k - 1) : Candidates(lib)[j] \notin fsFiles]

PrimaryMissing(lib) ==
    /\ lib.path # <<>>
    /\ Join(<<GameDir, <<"libraries">>, FromSlash(lib.path, goos)>>, goos) \notin fsFiles

\* C7 as claimed: an applicable library whose artifact path is set but whose
\* file is absent is resolved through the candidates (a)-(d), the first
\* existing one being added.
C7_Original_FallsBackToCandidates ==
    Built =>
        \A i \in 1..Len(versionJSON.libraries) :
            LET lib == versionJSON.libraries[i] IN
            (Applicable(lib) /\ PrimaryMissing(lib) /\ HasCoordinate(lib)
                /\ SomeCandidateExists(lib))
            => classpath.picks[i] = <<FirstCandidate(lib)>>

\* C7 amended: an applicable library whose artifact path is set but whose file
\* is absent contributes no path, whatever candidates exist, and a
\* library_missing event names it and the path that was probed.
C7_MissingPrimaryIsNotProbed ==
    Built =>
        \A i \in 1..Len(versionJSON.libraries) :
            LET lib == versionJSON.libraries[i] IN
            (Applicable(lib) /\ PrimaryMissing(lib))
            => /\ classpath.picks[i] = <<>>
               /\ \E e \in 1..Len(classpath.events) :
                    /\ classpath.events[e].name = "library_missing"
                    /\ classpath.events[e].data.name = Render(lib.name)

\* built with an applicable library whose artifact file is absent while one
\* of its coordinate candidates exists
C7_Witness ==
    /\ Built
    /\ \E i \in 1..Len(versionJSON.libraries) :
         LET lib == versionJSON.libraries[i] IN
         /\ Applicable(lib) /\ PrimaryMissing(lib) /\ HasCoordinate(lib)
         /\ Candidates(lib)[2] \in fsFiles
         /\ classpath.picks[i] = <<>>

\* C8: an applicable library without artifact path and with a coordinate of at
\* least three parts adds exactly the first existing candidate in the order
\* (a), (b), (c), (d), and adds nothing when none exists.
C8_FirstExistingCandidate ==
    Built =>
        \A i \in 1..Len(versionJSON.libraries) :
            LET lib == versionJSON.libraries[i] IN
            (Applicable(lib) /\ lib.path = <<>> /\ HasCoordinate(lib))
            => classpath.picks[i] =
                 IF SomeCandidateExists(lib) THEN <<FirstCandidate(lib)>> ELSE <<>>

\* built with such a library for which (a) is absent and (b), (c) both exist
C8_Witness ==
    /\ Built
    /\ \E i \in 1..Len(versionJSON.libraries) :
         LET lib == versionJSON.libraries[i] IN
         /\ Applicable(lib) /\ lib.path = <<>> /\ HasCoordinate(lib)
         /\ Candidates(lib)[1] \notin fsFiles
         /\ Candidates(lib)[2] \in fsFiles
         /\ Candidates(lib)[3] \in fsFiles
         /\ classpath.picks[i] = <<Candidates(lib)[2]>>

HasDottedGroup(lib) ==
    /\ HasCoordinate(lib)
    /\ \E k \in 1..Len(Split(lib.name, ":")[1]) : Split(lib.name, ":")[1][k] = "."

\* C9 as claimed: for a library without artifact path whose group is dotted,
\* the file in the Maven layout (every group segment a directory) is found by
\* probe (b) and added, no earlier candidate existing.
C9_Original_MavenLayoutFound ==
    Built =>
        \A i \in 1..Len(versionJSON.libraries) :
            LET lib == versionJSON.libraries[i] IN
            (Applicable(lib) /\ lib.path = <<>> /\ HasDottedGroup(lib)
                /\ MavenPath(lib.name, goos) \in fsFiles
                /\ Candidates(lib)[1] \notin fsFiles)
            => classpath.picks[i] = <<MavenPath(lib.name, goos)>>

\* buildClasspath emitted library_missing or library_not_found for this name
ReportedUnresolved(log, name) ==
    \E e \in 1..Len(log) :
        \/ log[e].name = "library_missing" /\ log[e].data.name = Render(name)
        \/ log[e].name = "library_not_found" /\ log[e].data = Render(name)

\* C11 as claimed: every applicable library that contributes no path is named
\* by a library_missing or library_not_found event, also one whose coordinate
\* has fewer than three parts and one with neither artifact path nor name.
C11_Original_EveryDropIsReported ==
    Built =>
        \A i \in 1..Len(versionJSON.libraries) :
            LET lib == versionJSON.libraries[i] IN
            (Applicable(lib) /\ classpath.picks[i] = <<>>)
            => ReportedUnresolved(classpath.events, lib.name)

\* what the loop does report: a missing artifact file, and a coordinate of at
\* least three parts none of whose candidates exists
C11_DropsReportedForPathOrCoordinate ==
    Built =>
        \A i \in 1..Len(versionJSON.libraries) :
            LET lib == versionJSON.libraries[i] IN
            (Applicable(lib) /\ classpath.picks[i] = <<>>
                /\ (lib.path # <<>> \/ HasCoordinate(lib)))
            => ReportedUnresolved(classpath.events, lib.name)

(***************************** SpecLaunch ***********************************)
\* a library with an artifact path and one known by its coordinate only
LibWithPath == [name |-> <<"org", ":", "lp", ":", "1">>, path |-> ArtifactPath,
                rules |-> <<>>]
LibByName == [name |-> NameDotted, path |-> <<>>, rules |-> <<>>]
\* the first library again, for every platform but linux
LibRuled == [LibWithPath EXCEPT !.rules = <<[action |-> "allow", os |-> ""],
                                            [action |-> "disallow", os |-> "linux"]>>]
LaunchLibSeqs == {<<>>, <<LibWithPath>>, <<LibByName>>, <<LibRuled>>}

\* documents of an installation: parents \subseteq the ids a document may name
LaunchDocs(id, parents, libSeqs) ==
    {MissingDoc} \cup
    {[EmptyDoc(id) EXCEPT !.inheritsFrom = p, !.libraries = l] :
        p \in parents, l \in libSeqs}

\* an archive under libraries/ holding one native file beside other entries
NativeEntries ==
    << [name |-> <<"META-INF", "/", "MANIFEST", ".MF">>, dir |-> FALSE,
        content |-> "manifest", read |-> "ok"],
       [name |-> <<"linux", "/", "liblwjgl", ".so">>, dir |-> FALSE,
        content |-> "lwjgl", read |-> "ok"] >>
NativeArchive ==
    [name |-> <<"lwjgl", "-", "natives-linux", ".jar">>, readable |-> TRUE,
     entries |-> NativeEntries]

StagedNative == [name |-> <<"liblwjgl", ".so">>, content |-> "lwjgl"]

\* staging directory and archives before the call: already staged, to be
\* extracted, nothing to extract, and a file in the directory's place
NativeSetups ==
    { [staging |-> [kind |-> "dir", files |-> {StagedNative}], archives |-> <<>>],
      [staging |-> [kind |-> "absent", files |-> {}], archives |-> <<NativeArchive>>],
      [staging |-> [kind |-> "absent", files |-> {}], archives |-> <<>>],
      [staging |-> [kind |-> "file", files |-> {}], archives |-> <<NativeArchive>>] }

LaunchLibFiles(v, os) ==
    {PrimaryPath(LibWithPath, os), possiblePaths(LibByName, v, os)[2]}

InitLaunch ==
    /\ EmitterIdle
    /\ ExtractIdle
    /\ goos \in {"linux", "freebsd"}
    /\ RulesIdle
    /\ version = "C"
    /\ \E a \in LaunchDocs("A", {""}, {<<>>}),
          b \in LaunchDocs("B", {"", "A"}, LaunchLibSeqs),
          c \in LaunchDocs("C", {"", "B"}, LaunchLibSeqs) :
           docs = DocsOf(a, b, c)
    /\ callArg = ""
    /\ stack = <<>>
    /\ ret = NoValue
    /\ events = <<>>
    /\ \E libFiles \in SUBSET LaunchLibFiles(version, goos),
          jars \in SUBSET {VersionJar(i, goos) : i \in IDs} :
           fsFiles = libFiles \cup jars
    /\ fsErr \in SUBSET ({VersionJar(version, goos)} \ fsFiles)
    /\ \E n \in NativeSetups : staging = n.staging /\ archives = n.archives
    /\ params = NoParams
    /\ opts = NoParams
    /\ versionJSON = EmptyDoc("")
    /\ classpath = NoClasspath
    /\ result = NoResult
    /\ pc = "start"

SpecLaunch == InitLaunch /\ [][NextLaunch]_vars

Done == pc = "done"
Succeeded == Done /\ result.err.stage = ""

OwnJarAbsent ==
    /\ VersionJar(version, goos) \notin fsFiles
    /\ VersionJar(version, goos) \notin fsErr

\* the requested document names a parent and that parent's archive exists
ParentJarExists ==
    /\ docs[version].kind = "ok"
    /\ docs[version].inheritsFrom # ""
    /\ VersionJar(docs[version].inheritsFrom, goos) \in fsFiles

\* C6 as claimed: when the requested version's own main archive does not exist
\* but its direct parent's does, a successful PrepareCMD passes a classpath
\* whose last element is the parent's main archive.
C6_Original_ParentArchiveOnClasspath ==
    (Succeeded /\ OwnJarAbsent /\ ParentJarExists) =>
        /\ classpath.parts # <<>>
        /\ classpath.parts[Len(classpath.parts)]
             = VersionJar(docs[version].inheritsFrom, goos)
        /\ result.args[5] = classpath.joined

Resolvable(lib) ==
    \/ lib.path # <<>> /\ ~PrimaryMissing(lib)
    \/ lib.path = <<>> /\ HasCoordinate(lib) /\ SomeCandidateExists(lib)

ExpectedPath(lib) ==
    IF lib.path # <<>>
    THEN Join(<<GameDir, <<"libraries">>, FromSlash(lib.path, goos)>>, goos)
    ELSE FirstCandidate(lib)

\* the main archive check passes: the own archive is not reported absent, or
\* the direct parent's archive exists
ArchiveVerifiable == ~OwnJarAbsent \/ ParentJarExists

NativesStaged == staging.kind = "dir" /\ HasNativeFile(staging.files)

\* C10: with the profile, a main archive and a native file available,
\* PrepareCMD succeeds whatever libraries are missing, and every applicable
\* library that can be resolved is on the classpath, also after a missing one.
C10_MissingLibraryNeverFatal ==
    (Done /\ ChainResolvable(version) /\ ArchiveVerifiable /\ NativesStaged) =>
        /\ result.err.stage = ""
        /\ Len(classpath.picks) = Len(versionJSON.libraries)
        /\ \A i \in 1..Len(versionJSON.libraries) :
             LET lib == versionJSON.libraries[i] IN
             (Applicable(lib) /\ Resolvable(lib))
             => classpath.picks[i] = <<ExpectedPath(lib)>>

\* a successful run over two libraries, the first missing, the second added
C10_Witness ==
    /\ Succeeded
    /\ Len(versionJSON.libraries) = 2
    /\ ~Resolvable(versionJSON.libraries[1])
    /\ classpath.picks[1] = <<>>
    /\ Resolvable(versionJSON.libraries[2])
    /\ classpath.picks[2] = <<ExpectedPath(versionJSON.libraries[2])>>

\* the paths the libraries contribute: one per applicable, resolvable library
ExpectedLibPaths(libs) ==
    Flatten([i \in 1..Len(libs) |->
        IF Applicable(libs[i]) /\ Resolvable(libs[i])
        THEN <<ExpectedPath(libs[i])>> ELSE <<>>])

\* the archive the verification settled on: the version's own, or the direct
\* parent's when the own one is absent
MainArchive ==
    IF OwnJarAbsent /\ ParentJarExists
    THEN VersionJar(docs[version].inheritsFrom, goos)
    ELSE VersionJar(version, goos)

\* C12 as claimed: the classpath of a successful PrepareCMD is one path per
\* applicable, resolvable library of the merged sequence (parent entries
\* first), in order, followed by the main archive as the last element
\* (os.Stat on the own archive answering "exists" or "does not exist").
C12_Original_LibrariesThenMainArchive ==
    (Succeeded /\ VersionJar(version, goos) \notin fsErr) =>
        /\ versionJSON.libraries = LibsRootFirst(Chain(version))
        /\ classpath.parts = ExpectedLibPaths(versionJSON.libraries) \o <<MainArchive>>
        /\ result.args[5] = JoinStrings(classpath.parts, PathListSeparator(goos))

\* the same when the version's own archive exists
C12_LibrariesThenOwnArchive ==
    (Succeeded /\ VersionJar(version, goos) \in fsFiles) =>
        /\ versionJSON.libraries = LibsRootFirst(Chain(version))
        /\ classpath.parts = ExpectedLibPaths(versionJSON.libraries)
                                \o <<VersionJar(version, goos)>>
        /\ result.args[5] = JoinStrings(classpath.parts, PathListSeparator(goos))

\* own archive present, parent and child declare the same coordinate, the
\* parent's entry is excluded by its rules although its file exists
C12_OwnArchiveCase ==
    /\ Succeeded
    /\ VersionJar(version, goos) \in fsFiles
    /\ Len(versionJSON.libraries) = 2
    /\ versionJSON.libraries[1].name = versionJSON.libraries[2].name
    /\ ~Applicable(versionJSON.libraries[1])
    /\ Len(classpath.parts) = 2

\* the steps between stages that PrepareCMD's statement order allows
StageSteps ==
    { <<"start", "load">>, <<"load", "load">>, <<"load", "natives">>,
      <<"load", "done">>, <<"natives", "build">>, <<"natives", "done">>,
      <<"build", "assemble">>, <<"assemble", "done">> }

StageEvents(log, names) == {i \in 1..Len(log) : log[i].name \in names}

NativeStageEvents ==
    {"natives_already_extracted", "extracting_natives_start",
     "native_jar_processing", "native_extracted", "natives_extracted"}

\* C19: every step of a PrepareCMD run goes from one stage to the next in the
\* order resolve, verify, natives, classpath, arguments; each stage's output is
\* written in its own stage only; a stage that fails ends the run with an
\* error, an empty executable and no arguments, and nothing follows; a run
\* that fails in resolution or verification leaves the staging directory as
\* it was and emits no extraction event.
C19_StagesInOrder ==
    [][/\ <<pc, pc'>> \in StageSteps
       /\ versionJSON' # versionJSON => pc = "load"
       /\ staging' # staging => pc = "natives"
       /\ classpath' # classpath => pc = "build"
       /\ result' # result => pc' = "done"
       /\ (pc = "natives" /\ pc' = "build") =>
             (staging'.kind = "dir" /\ HasNativeFile(staging'.files))
       /\ (pc' = "done" /\ pc # "assemble") =>
             /\ result'.err.stage # ""
             /\ result'.exe = ""
             /\ result'.args = <<>>
             /\ classpath' = NoClasspath
       /\ (pc' = "done" /\ pc = "load") =>
             /\ result'.err.stage \in {"load", "jar"}
             /\ staging' = staging
             /\ StageEvents(events', NativeStageEvents) = {}
       /\ (pc' = "done" /\ pc = "assemble") => result'.err = NoError]_vars

\* a run ended by the archive verification with natives still to be staged
C19_Witness ==
    /\ Done
    /\ result.err.stage = "jar"
    /\ staging.kind = "absent"
    /\ archives # <<>>
    /\ StageEvents(events, {"version_json_loaded"}) # {}

OwnJarExists == VersionJar(version, goos) \in fsFiles

\* C20: with the profile resolved, verification passes when the own archive
\* exists, or when it is reported absent and the requested profile's direct
\* parent has its archive; with the own archive absent and no direct parent
\* archive PrepareCMD fails with the archive-not-found error, whatever other
\* archives exist further up the chain.
C20_OneLevelFallback ==
    (Done /\ ChainResolvable(version)) =>
        /\ (OwnJarExists \/ (OwnJarAbsent /\ ParentJarExists))
              => result.err.stage # "jar"
        /\ (OwnJarAbsent /\ ~ParentJarExists)
              => /\ result.err.stage = "jar"
                 /\ result.exe = ""
                 /\ result.args = <<>>
                 /\ events[Len(events)].name = "error"

\* C inherits B, B inherits A; only the grandparent's archive exists
C20_Witness ==
    /\ Done
    /\ ChainResolvable(version)
    /\ Chain(version) = <<"C", "B", "A">>
    /\ OwnJarAbsent
    /\ VersionJar("B", goos) \notin fsFiles
    /\ VersionJar("A", goos) \in fsFiles
    /\ result.err.stage = "jar"

(***************************** SpecAssets ***********************************)
\* the legacy template document id may declare
TemplateOf(id) ==
    <<"--assetIndex", " ", "${assets_index_name}", " ", "--template", " ", id>>

AssetDocs(id, parents) ==
    {[EmptyDoc(id) EXCEPT !.inheritsFrom = p, !.assets = a,
                          !.assetIndex = [id |-> x], !.minecraftArguments = t] :
        p \in parents, a \in {"", "assets" \o id}, x \in {"", "index" \o id},
        t \in {<<>>, TemplateOf(id)}}

InitAssets ==
    /\ EmitterIdle
    /\ ExtractIdle
    /\ goos = "linux"
    /\ RulesIdle
    /\ version = "C"
    /\ \E a \in AssetDocs("A", {""}),
          b \in AssetDocs("B", {"", "A"}),
          c \in AssetDocs("C", {"", "B"}) :
           docs = DocsOf(a, b, c)
    /\ callArg = ""
    /\ stack = <<>>
    /\ ret = NoValue
    /\ events = <<>>
    /\ fsFiles = {VersionJar(version, goos)}
    /\ fsErr = {}
    /\ staging = [kind |-> "dir", files |-> {StagedNative}]
    /\ archives = <<>>
    /\ params \in {NoParams, [NoParams EXCEPT !.username = <<"Steve">>]}
    /\ opts = NoParams
    /\ versionJSON = EmptyDoc("")
    /\ classpath = NoClasspath
    /\ result = NoResult
    /\ pc = "start"

SpecAssets == InitAssets /\ [][NextLaunch]_vars

\* the argument that follows flag in args, "" when the flag is absent or last
ArgAfter(args, flag) ==
    IF \E i \in 1..(Len(args) - 1) : args[i] = flag
    THEN args[1 + CHOOSE i \in 1..(Len(args) - 1) : args[i] = flag]
    ELSE ""

GameArgsOf(args) == SubSeq(args, 7, Len(args))

\* the asset identifiers the requested document declares itself
OwnAssetIds(doc) == {doc.assets, doc.assetIndex.id} \ {""}

\* C3 as claimed: when the requested (child) document declares a non-empty
\* asset identifier of its own, in assets or in assetIndex.id, the asset-index
\* name PrepareCMD passes is the child's, whatever the parent declares; and the
\* legacy template used is the child's whenever it is non-empty.
C3_Original_ChildAssetIdWins ==
    (Succeeded /\ docs[version].inheritsFrom # "") =>
        /\ OwnAssetIds(docs[version]) # {}
             => ArgAfter(GameArgsOf(result.args), "--assetIndex")
                  \in OwnAssetIds(docs[version])
        /\ docs[version].minecraftArguments # <<>>
             => ArgAfter(GameArgsOf(result.args), "--template") = version

(***************************** SpecRebuild **********************************)
\* buildClasspath called a second time on the same snapshot, platform, version
\* and profile (every PrepareCMD call builds the classpath afresh); the first
\* call's return value and the events it emitted are kept in result
BuildAgain ==
    /\ pc = "assemble"
    /\ result = NoResult
    /\ result' = [tag |-> "first", classpath |-> classpath, events |-> events]
    /\ classpath' = NoClasspath
    /\ pc' = "build"
    /\ UNCHANGED <<emitterVars, extractVars>>
    /\ UNCHANGED <<goos, ruleVars, loadVars, events, fsVars, params, opts, versionJSON>>

NextRebuild == BuildClasspath \/ BuildAgain

\* libraries found by coordinate, by artifact path, excluded by rule, and one
\* that is dropped
RebuildLibs ==
    {lib \in CpLibs : lib.name \in {NameDotted, NameShort}}

InitRebuild == ClasspathCall(SeqsUpTo(RebuildLibs, MaxRebuildLibs))

SpecRebuild == InitRebuild /\ [][NextRebuild]_vars

BuiltTwice == pc = "assemble" /\ result # NoResult

\* the events emitted since the first run ended
SecondRunEvents == SubSeq(events, Len(result.events) + 1, Len(events))

Calls ==
    Cardinality({i \in 1..Len(events) : events[i].name = "launch_preparation_start"})

\* the caller launches again: PrepareCMD is called once more with the same
\* arguments, on the installation as the previous call left it
PrepareAgain ==
    /\ pc = "done"
    /\ Calls < MaxCalls
    /\ pc' = "start"
    /\ ret' = NoValue
    /\ opts' = NoParams
    /\ versionJSON' = EmptyDoc("")
    /\ classpath' = NoClasspath
    /\ result' = NoResult
    /\ UNCHANGED <<emitterVars, extractVars>>
    /\ UNCHANGED <<goos, ruleVars, docs, version, callArg, stack, events, fsVars, params>>

NextNatives == NextLaunch \/ PrepareAgain

Entry(name, content, read) ==
    [name |-> name, dir |-> FALSE, content |-> content, read |-> read]

\* archives under libraries/: natives of two libraries, one whose copy breaks
\* off, one that cannot be opened, one holding no native file, and an archive
\* whose name does not mark it as native
OpenalArchive ==
    [name |-> <<"openal", "-", "natives-windows", ".jar">>, readable |-> TRUE,
     entries |-> << [name |-> <<"windows">>, dir |-> TRUE, content |-> "", read |-> "ok"],
                    Entry(<<"META-INF", "/", "sig", ".dll">>, "sig", "ok"),
                    Entry(<<"windows", "/", "OpenAL", ".DLL">>, "openal", "ok") >>]
BrokenCopyArchive ==
    [name |-> <<"lwjgl", "-", "NATIVES", ".jar">>, readable |-> TRUE,
     entries |-> << Entry(<<"liblwjgl", ".so">>, "lwjgl", "copyfail"),
                    Entry(<<"libglfw", ".so">>, "glfw", "openfail") >>]
UnreadableArchive ==
    [name |-> <<"jinput", "-", "natives-linux", ".jar">>, readable |-> FALSE,
     entries |-> <<Entry(<<"libjinput", ".so">>, "jinput", "ok")>>]
ClassesOnlyArchive ==
    [name |-> <<"text2speech", "-", "natives", ".jar">>, readable |-> TRUE,
     entries |-> <<Entry(<<"com", "/", "Narrator", ".class">>, "class", "ok")>>]
PlainArchive ==
    [name |-> <<"guava", ".jar">>, readable |-> TRUE,
     entries |-> <<Entry(<<"libguava", ".so">>, "guava", "ok")>>]

\* one library's natives for two architectures under one base filename, and a
\* second build of a file another archive holds
TwoArchArchive ==
    [name |-> <<"lwjgl-platform", "-", "natives-linux", ".jar">>, readable |-> TRUE,
     entries |-> << Entry(<<"x64", "/", "liblwjgl", ".so">>, "lwjgl64", "ok"),
                    Entry(<<"x86", "/", "liblwjgl", ".so">>, "lwjgl32", "ok"),
                    Entry(<<"OpenAL", ".DLL">>, "openal-soft", "ok") >>]

ArchivePool ==
    {NativeArchive, OpenalArchive, BrokenCopyArchive, UnreadableArchive,
     ClassesOnlyArchive, PlainArchive, TwoArchArchive}

\* the staging directory as earlier runs may have left it
StagingBefore ==
    { [kind |-> "absent", files |-> {}],
      [kind |-> "file", files |-> {}],
      [kind |-> "dir", files |-> {}],
      [kind |-> "dir", files |-> {[name |-> <<"readme", ".txt">>, content |-> "text"]}],
      [kind |-> "dir", files |-> {StagedNative}],
      [kind |-> "dir", files |-> {[name |-> <<"liblwjgl", ".so">>, content |-> "partial"]}],
      [kind |-> "dir", files |-> {[name |-> <<"OpenAL", ".DLL">>, content |-> "openal"]}] }

InitNatives ==
    /\ EmitterIdle
    /\ ExtractIdle
    /\ goos \in {"linux", "windows", "freebsd"}
    /\ RulesIdle
    /\ version = "C"
    /\ docs = DocsOf(MissingDoc, EmptyDoc("B"),
                     [EmptyDoc("C") EXCEPT !.inheritsFrom = "B"])
    /\ callArg = ""
    /\ stack = <<>>
    /\ ret = NoValue
    /\ events = <<>>
    /\ fsFiles = {VersionJar(version, goos)}
    /\ fsErr = {}
    /\ staging \in StagingBefore
    /\ archives \in SeqsUpTo(ArchivePool, MaxArchives)
    /\ params = NoParams
    /\ opts = NoParams
    /\ versionJSON = EmptyDoc("")
    /\ classpath = NoClasspath
    /\ result = NoResult
    /\ pc = "start"

SpecNatives == InitNatives /\ [][NextNatives]_vars

\* a readable archive the walk would extract from holds a native entry whose
\* staged copy is missing or truncated
RepairPending ==
    \E k \in 1..Len(archives) :
        /\ archives[k] = NativeArchive
        /\ StagedNative \notin staging.files

\* C14: while the staging directory holds a file with a native suffix, no step
\* of any PrepareCMD call changes the directory, and the extraction step
\* succeeds at once, emitting only natives_already_extracted: no walk, no
\* extraction, no repair.
C14_StagedNativesAreFrozen ==
    [][HasNativeFile(staging.files) =>
          /\ staging' = staging
          /\ pc = "natives" =>
                /\ pc' = "build"
                /\ result' = result
                /\ events' = Emit(events, "natives_already_extracted",
                                  NativesDir(version, goos))]_vars

\* a later call has passed the extraction step while a native file held by a
\* readable, matching archive is still missing or truncated in the directory
C14_Witness ==
    /\ Calls = MaxCalls
    /\ Succeeded
    /\ HasNativeFile(staging.files)
    /\ RepairPending

Supported == goos \in {"windows", "darwin", "linux"}

NamedEvents(names) == {i \in 1..Len(events) : events[i].name \in names}

\* C15: when the archives were scanned and the staging directory holds no
\* native file, PrepareCMD returns the extraction error with an empty
\* executable and no arguments; the classpath was not built and no argument
\* was assembled.
C15_NoNativesIsFatal ==
    (Done /\ Supported /\ staging.kind = "dir" /\ ~HasNativeFile(staging.files)) =>
        /\ result.exe = ""
        /\ result.args = <<>>
        /\ result.err = [stage |-> "natives", cause |-> NoNativesMessage]
        /\ classpath = NoClasspath
        /\ NamedEvents({"building_classpath", "classpath_built",
                        "launch_preparation_complete"}) = {}

\* a failed run in which a matching archive was processed and a non-native
\* file is all the directory holds
C15_Witness ==
    /\ Done
    /\ Supported
    /\ staging.kind = "dir"
    /\ staging.files # {}
    /\ ~HasNativeFile(staging.files)
    /\ NamedEvents({"native_jar_processing"}) # {}
    /\ result.err.stage = "natives"

\* the extraction step is about to walk the archives
WalkPending ==
    /\ pc = "natives"
    /\ Supported
    /\ staging.kind # "file"
    /\ ~HasNativeFile(staging.files)

\* the walk hands archive k to extractJar
Matching(k) ==
    /\ archives[k].name # <<>>
    /\ archives[k].name[Len(archives[k].name)] = ".jar"
    /\ \/ ContainsPattern(archives[k].name, "natives-" \o getOSName(goos))
       \/ ContainsPattern(archives[k].name, "natives")

\* entry i of archive k passes extractJar's filters and can be opened
Eligible(k, i) ==
    LET f == archives[k].entries[i] IN
    /\ Matching(k)
    /\ archives[k].readable
    /\ ~f.dir
    /\ ~(Len(f.name) >= 2 /\ f.name[1] = "META-INF" /\ f.name[2] = "/")
    /\ HasNativeSuffix(f.name)
    /\ f.read # "openfail"

EntryPositions ==
    UNION {{<<k, i>> : i \in 1..Len(archives[k].entries)} : k \in 1..Len(archives)}

Earlier(p, q) == p[1] < q[1] \/ (p[1] = q[1] /\ p[2] < q[2])

BaseOf(p) == Base(archives[p[1]].entries[p[2]].name, goos)

\* the first eligible entry, in scan order, for base filename n
FirstFor(n) ==
    {p \in EntryPositions :
        /\ Eligible(p[1], p[2])
        /\ BaseOf(p) = n
        /\ \A q \in EntryPositions :
              (Eligible(q[1], q[2]) /\ BaseOf(q) = n) => ~Earlier(q, p)}

\* C27: a walk over the archives keeps every file the staging directory held,
\* with its bytes, and adds one file per base filename of the entries that are
\* no directory, not under META-INF/, native by suffix and openable: the file
\* is named by the base filename alone and holds the bytes of the first such
\* entry in scan order (what was copied of them when the copy broke off);
\* later entries of that base filename, in the same or a later archive, leave
\* it as it is.
C27_FirstEntryPerBaseNameStaged ==
    [][WalkPending =>
          /\ staging.files \subseteq staging'.files
          /\ \A f, g \in staging'.files : f.name = g.name => f = g
          /\ \A f \in staging'.files \ staging.files :
                \E p \in FirstFor(f.name) :
                    LET e == archives[p[1]].entries[p[2]] IN
                    /\ \A k \in 1..Len(f.name) : f.name[k] # "/"
                    /\ f.content = IF e.read = "ok" THEN e.content ELSE "partial"
          /\ \A p \in EntryPositions :
                Eligible(p[1], p[2]) => FileExists(staging'.files, BaseOf(p))]_vars

\* two entries of the first archive and one of the second share a base
\* filename; the directory holds the bytes of the first of the three
C27_Witness ==
    /\ Done
    /\ goos = "linux"
    /\ archives = <<TwoArchArchive, BrokenCopyArchive>>
    /\ [name |-> <<"liblwjgl", ".so">>, content |-> "lwjgl64"] \in staging.files
    /\ [name |-> <<"OpenAL", ".DLL">>, content |-> "openal-soft"] \in staging.files
    /\ Cardinality(NamedEvents({"native_jar_processing"})) >= 2

\* the events of the step just taken
StepEvents == SubSeq(events', Len(events) + 1, Len(events'))

ProcessingNames ==
    LET sel == SelectSeq(StepEvents, LAMBDA e : e.name = "native_jar_processing")
    IN [k \in 1..Len(sel) |-> sel[k].data]

MatchingNames ==
    LET idx == {k \in 1..Len(archives) : Matching(k)}
        nth[n \in 1..Cardinality(idx)] ==
            CHOOSE k \in idx : Cardinality({j \in idx : j <= k}) = n
    IN [n \in 1..Cardinality(idx) |-> Render(archives[nth[n]].name)]

\* C28: a walk hands every matching archive to extractJar, those after an
\* archive that cannot be opened included, and their native entries are
\* staged; the step succeeds when the directory then holds a native file and
\* fails only when it holds none.
C28_UnreadableArchiveIsSkipped ==
    [][WalkPending =>
          /\ ProcessingNames = MatchingNames
          /\ \A p \in EntryPositions :
                Eligible(p[1], p[2]) => FileExists(staging'.files, BaseOf(p))
          /\ IF HasNativeFile(staging'.files)
             THEN /\ pc' = "build"
                  /\ result' = result
                  /\ events'[Len(events')] =
                        [name |-> "natives_extracted",
                         data |-> NativeCount(staging'.files)]
             ELSE /\ pc' = "done"
                  /\ result'.err = [stage |-> "natives", cause |-> NoNativesMessage]]_vars

\* the first matching archive cannot be opened, the one after it was staged
\* and the call succeeded
C28_Witness ==
    /\ Succeeded
    /\ goos = "linux"
    /\ archives = <<UnreadableArchive, NativeArchive>>
    /\ StagedNative \in staging.files
    /\ ~FileExists(staging.files, <<"libjinput", ".so">>)
    /\ Cardinality(NamedEvents({"native_jar_processing"})) >= 2

(***************************** SpecArgs *************************************)
\* legacy templates: none, the one-placeholder template, and one using every
\* key of the map, an unknown key, a placeholder glued to text, a repeated
\* placeholder and a run of blanks
NameTemplate == <<"--name", " ", "${auth_player_name}">>
FullTemplate ==
    << "--user=", "${auth_player_name}", " ", " ",
       "--version", " ", "${version_name}", " ",
       "--gameDir", " ", "${game_directory}", " ",
       "--assetsDir", " ", "${assets_root}", " ",
       "--assetIndex", " ", "${assets_index_name}", " ",
       "--uuid", " ", "${auth_uuid}", " ",
       "--accessToken", " ", "${auth_access_token}", " ",
       "--userProperties", " ", "${user_properties}", " ",
       "--userType", " ", "${user_type}", " ",
       "${resolution_width}", " ", "${auth_player_name}" >>
Templates == {<<>>, NameTemplate, FullTemplate}

\* PrepareCMD's arguments: each empty or supplied; a player name may hold a
\* blank or the text of a placeholder
ArgParams ==
    [username    : {<<>>, <<"Steve">>, <<"Al", " ", "Ex">>, <<"${auth_access_token}">>},
     javaPath    : {<<>>, <<"jre", "/", "java">>},
     maxRam      : {<<>>, <<"4G">>},
     minRam      : {<<>>, <<"1G">>},
     accessToken : {<<>>, <<"tok">>},
     uuid        : {<<>>, <<"u-1">>},
     extraArgs   : {<<>>, <<"--demo">>}]

InitArgs ==
    /\ EmitterIdle
    /\ ExtractIdle
    /\ goos \in {"linux", "windows"}
    /\ RulesIdle
    /\ version = "C"
    /\ \E t \in Templates, n \in {0, 2} :
           docs = DocsOf(MissingDoc, EmptyDoc("B"),
                         [EmptyDoc("C") EXCEPT !.inheritsFrom = "B",
                                               !.minecraftArguments = t,
                                               !.argumentsGame = n,
                                               !.assetIndex = [id |-> "17"]])
    /\ callArg = ""
    /\ stack = <<>>
    /\ ret = NoValue
    /\ events = <<>>
    /\ fsFiles = {VersionJar(version, goos)}
    /\ fsErr = {}
    /\ staging = [kind |-> "dir", files |-> {StagedNative}]
    /\ archives = <<>>
    /\ params \in ArgParams
    /\ opts = NoParams
    /\ versionJSON = EmptyDoc("")
    /\ classpath = NoClasspath
    /\ result = NoResult
    /\ pc = "start"

SpecArgs == InitArgs /\ [][NextLaunch]_vars

\* the value PrepareCMD is to use for a parameter: the supplied one, or the
\* default when none was supplied
Effective(field, default) ==
    IF params[field] = <<>> THEN default ELSE params[field]

PlayerName == Effective("username", <<"Player">>)
AccessToken == Effective("accessToken", <<"0">>)
OpaqueId == Effective("uuid", <<"00000000-0000-0000-0000-000000000000">>)
Executable == Effective("javaPath", <<"java">>)
MaxMemory == Effective("maxRam", <<"2G">>)
MinMemory == Effective("minRam", <<"512M">>)

AssetsDir == Render(GameDir) \o Sep(goos) \o "assets"

\* the fixed map of the legacy protocol
KeyValue(key) ==
    CASE key = "auth_player_name"  -> PlayerName
      [] key = "version_name"      -> <<version>>
      [] key = "game_directory"    -> GameDir
      [] key = "assets_root"       -> <<AssetsDir>>
      [] key = "assets_index_name" -> <<"17">>
      [] key = "auth_uuid"         -> OpaqueId
      [] key = "auth_access_token" -> AccessToken
      [] key = "user_properties"   -> <<"{}">>
      [] key = "user_type"         -> <<"legacy">>

MapKeys ==
    {"auth_player_name", "version_name", "game_directory", "assets_root",
     "assets_index_name", "auth_uuid", "auth_access_token", "user_properties",
     "user_type"}

\* the template with every ${key} of the map replaced by the key's value
Substituted(template) ==
    Flatten([i \in 1..Len(template) |->
        IF \E k \in MapKeys : template[i] = "${" \o k \o "}"
        THEN KeyValue(CHOOSE k \in MapKeys : template[i] = "${" \o k \o "}")
        ELSE <<template[i]>>])

\* the text cut at its blanks, empty pieces dropped
RECURSIVE Words(_, _)
Words(text, word) ==
    IF text = <<>> THEN (IF word = "" THEN <<>> ELSE <<word>>)
    ELSE IF Head(text) = " "
         THEN (IF word = "" THEN <<>> ELSE <<word>>) \o Words(Tail(text), "")
         ELSE Words(Tail(text), word \o Head(text))

LegacyRun == Succeeded /\ docs[version].minecraftArguments # <<>>
FixedRun == Succeeded /\ docs[version].minecraftArguments = <<>>

\* no supplied value is itself the text of a placeholder of the map
NoPlaceholderInValues ==
    \A k \in MapKeys : \A i \in 1..Len(KeyValue(k)) : \A j \in MapKeys :
        KeyValue(k)[i] # "${" \o j \o "}"

\* C16: with a legacy template the game arguments are the template with every
\* ${key} of the fixed map replaced by that key's value, split at white space;
\* a ${...} whose key is not in the map stays as it is. When a value is itself
\* the text of a placeholder of the map, that text is either kept or replaced
\* in turn by its own key's value.
C16_TemplateSubstituted ==
    LegacyRun =>
        LET once == Substituted(docs[version].minecraftArguments) IN
        \/ GameArgsOf(result.args) = Words(once, "") \o params.extraArgs
        \/ /\ ~NoPlaceholderInValues
           /\ GameArgsOf(result.args) = Words(Substituted(once), "") \o params.extraArgs

\* the template --name ${auth_player_name} with player name Steve
C16_Witness ==
    /\ LegacyRun
    /\ docs[version].minecraftArguments = NameTemplate
    /\ params.username = <<"Steve">>
    /\ GameArgsOf(result.args) = <<"--name", "Steve">>

\* the fixed list of the protocol without template
FixedList ==
    << "--username", Render(PlayerName),
       "--version", version,
       "--gameDir", Render(GameDir),
       "--assetsDir", AssetsDir,
       "--assetIndex", "17",
       "--uuid", Render(OpaqueId),
       "--accessToken", Render(AccessToken),
       "--userType", "legacy" >>

C18_DefaultsForEmptyParameters ==
    Succeeded =>
        /\ result.exe = Render(Executable)
        /\ result.args[1] = "-Xmx" \o Render(MaxMemory)
        /\ result.args[2] = "-Xms" \o Render(MinMemory)
        /\ docs[version].minecraftArguments = <<>> =>
              /\ result.args[8] = Render(PlayerName)
              /\ result.args[18] = Render(OpaqueId)
              /\ result.args[20] = Render(AccessToken)
        /\ events[Len(events)].data.username = Render(PlayerName)
        /\ events[Len(events)].data.javaPath = Render(Executable)

\* a run with the player name and the minimum memory supplied and everything
\* else left empty
C18_Witness ==
    /\ FixedRun
    /\ params.username = <<"Steve">>
    /\ params.minRam = <<"1G">>
    /\ params.javaPath = <<>>
    /\ params.maxRam = <<>>
    /\ params.accessToken = <<>>
    /\ params.uuid = <<>>
    /\ result.exe = "java"
    /\ result.args[1] = "-Xmx2G"
    /\ result.args[2] = "-Xms1G"
    /\ result.args[8] = "Steve"

\* C29: with a legacy template the game arguments are the same under every
\* order in which the keys of the map are applied: each placeholder of the
\* template is replaced by its key's value, and the text of a value is taken
\* as it is, also when it reads like a placeholder of the map.
C29_Original_ValuesNeverExpanded ==
    LegacyRun =>
        GameArgsOf(result.args) =
            Words(Substituted(docs[version].minecraftArguments), "") \o params.extraArgs

\* with values that hold no placeholder text every order gives the one list
C29_PlainValuesOrderIndependent ==
    (LegacyRun /\ NoPlaceholderInValues) =>
        GameArgsOf(result.args) =
            Words(Substituted(docs[version].minecraftArguments), "") \o params.extraArgs

(***************************** SpecEmitter **********************************)
NextEmitter ==
    \/ \E g \in Goroutines : Go(g)
    \/ \E g \in Goroutines : OnLock(g)
    \/ \E g \in Goroutines : OnLocked(g)
    \/ \E g \in Goroutines : OnAppend(g)
    \/ \E g \in Goroutines : OnStore(g)
    \/ \E g \in Goroutines : OnUnlock(g)
    \/ \E g \in Goroutines : EmitRLock(g)
    \/ \E g \in Goroutines : EmitRead(g)
    \/ \E g \in Goroutines : EmitRUnlock(g)
    \/ \E g \in Goroutines : EmitNext(g)
    \/ \E g \in Goroutines : EmitReturn(g)
    \/ \E g \in Goroutines : HandlerBody(g)
    \/ \E g \in Goroutines : HandlerReturn(g)

\* what the two goroutines run: registrations and emissions of both events,
\* with handlers that register and that emit from inside an Emit
Programs ==
    [g1 : { <<OnCall("e1", "registrar"), EmitCall("e1", "d1")>>,
            <<OnCall("e1", "relay"), OnCall("e2", "c"), EmitCall("e1", "d1")>> },
     g2 : { <<OnCall("e1", "b"), EmitCall("e1", "d2")>>,
            <<OnCall("e2", "b"), EmitCall("e2", "d1")>> }]

InitEmitter ==
    /\ goos = "linux"
    /\ pc = "idle"
    /\ RulesIdle
    /\ LoadIdle
    /\ events = <<>>
    /\ FsIdle
    /\ LaunchIdle
    /\ ExtractIdle
    /\ listeners = NoListeners
    /\ mu = FreeMutex
    /\ \E program \in Programs :
          goroutines = [g \in Goroutines |-> [todo |-> program[g], stack |-> <<>>]]
    /\ history = <<>>

SpecEmitter == InitEmitter /\ [][NextEmitter]_vars

\* the Go scheduler runs every goroutine that can take a step
SpecEmitterFair ==
    /\ InitEmitter
    /\ [][NextEmitter]_vars
    /\ \A g \in Goroutines :
          WF_vars(\/ Go(g) \/ OnLock(g) \/ OnLocked(g) \/ OnAppend(g) \/ OnStore(g)
                  \/ OnUnlock(g)
                  \/ EmitRLock(g) \/ EmitRead(g) \/ EmitRUnlock(g) \/ EmitNext(g)
                  \/ EmitReturn(g) \/ HandlerBody(g) \/ HandlerReturn(g))

Positions(op) == {k \in 1..Len(history) : history[k].op = op}

\* the Emit calls that have returned: where each began and ended
Finished ==
    {[from |-> s, to |-> r] : s \in Positions("emit"), r \in Positions("returned")}
        \cap {x \in [from : 1..Len(history), to : 1..Len(history)] :
                 history[x.to].id = history[x.from].id}

\* the handlers Emit call x called, in order
CallsOf(id) ==
    LET idx == {k \in Positions("call") : history[k].id = id}
        nth[n \in 1..Cardinality(idx)] ==
            CHOOSE k \in idx : Cardinality({j \in idx : j <= k}) = n
    IN [n \in 1..Cardinality(idx) |-> history[nth[n]]]

\* the registrations for event e that returned before position s, in order
RegisteredBefore(e, s) ==
    LET idx == {k \in Positions("registered") : k < s /\ history[k].event = e}
        nth[n \in 1..Cardinality(idx)] ==
            CHOOSE k \in idx : Cardinality({j \in idx : j <= k}) = n
    IN [n \in 1..Cardinality(idx) |-> history[nth[n]].handler]

\* seq a is seq b with some elements left out
RECURSIVE IsSubsequence(_, _)
IsSubsequence(a, b) ==
    IF a = <<>> THEN TRUE
    ELSE IF b = <<>> THEN FALSE
    ELSE IF Head(a) = Head(b) THEN IsSubsequence(Tail(a), Tail(b))
    ELSE IsSubsequence(a, Tail(b))

Occurrences(seq, x) == Cardinality({k \in 1..Len(seq) : seq[k] = x})

AllReturned == \A g \in Goroutines : goroutines[g] = Idle

\* C30: a goroutine inside On or Emit, called from a handler or not, is never
\* stuck - while a call is under way some goroutine can take a step - and every
\* call returns; an Emit does not call a handler that one of its own handlers
\* registered while it ran, and every Emit of that event that begins after
\* the registration returned calls it.
C30_HandlersMayCallTheEmitter ==
    /\ [](AllReturned \/ ENABLED NextEmitter)
    /\ <>[]AllReturned
    /\ [](\A k \in Positions("registered") : \A c \in Positions("call") :
            history[k].handler.by # 0 =>
                ~(history[c].id = history[k].handler.by
                    /\ history[c].handler = history[k].handler))
    /\ [](\A x \in Finished : \A k \in Positions("registered") :
            (history[k].handler.by # 0 /\ k < x.from
                /\ history[k].event = history[x.from].event) =>
                Occurrences([n \in 1..Len(CallsOf(history[x.from].id)) |->
                                CallsOf(history[x.from].id)[n].handler],
                            history[k].handler) = 1)

\* an Emit of e1 called the registrar, which registered a new handler for e1;
\* that Emit returned without calling it, and the next Emit of e1 called it
C30_Witness ==
    \E x, y \in Finished : \E k \in Positions("registered") :
        /\ history[k].handler.by = history[x.from].id
        /\ x.from < k /\ k < x.to
        /\ x.to < y.from
        /\ history[y.from].event = history[k].event
        /\ \E c \in Positions("call") :
              history[c].id = history[y.from].id /\ history[c].handler = history[k].handler
        /\ \A c \in Positions("call") :
              history[c].id = history[x.from].id => history[c].handler # history[k].handler

(***************************** SpecConcurrent *******************************)
NextConcurrent ==
    \/ \E c \in Callers : Prepare(c)
    \/ \E c \in Callers : MkdirAll(c)
    \/ \E c \in Callers : ReadDir(c)
    \/ \E c \in Callers : Walk(c)
    \/ \E c \in Callers : EntryStat(c)
    \/ \E c \in Callers : EntryCreate(c)
    \/ \E c \in Callers : EntryCopy(c)
    \/ \E c \in Callers : Count(c)
    \/ \E c \in Callers : Finish(c)

NoNatives == [kind |-> "absent", files |-> {}]
NativesStagedBefore ==
    [kind |-> "dir", files |-> {[name |-> <<"liblwjgl", ".so">>, bytes |-> Whole("lwjgl")]}]

\* three calls on an installation with version A, version B inheriting from A
\* and using A's archive, and no document for C; one natives archive under
\* libraries/, sound or with entries that fail to open or to copy; each
\* staging directory absent or staged by an earlier run
InitConcurrent ==
    /\ goos = "linux"
    /\ pc = "idle"
    /\ RulesIdle
    /\ docs = DocsOf(EmptyDoc("A"), [EmptyDoc("B") EXCEPT !.inheritsFrom = "A"], MissingDoc)
    /\ version = ""
    /\ callArg = ""
    /\ stack = <<>>
    /\ ret = NoValue
    /\ events = <<>>
    /\ fsFiles = {VersionJar("A", goos)}
    /\ fsErr = {}
    /\ staging = [kind |-> "absent", files |-> {}]
    /\ archives \in {<<NativeArchive>>, <<BrokenCopyArchive>>}
    /\ LaunchIdle
    /\ EmitterIdle
    /\ nativesBefore \in [{NativesDir(i, goos) : i \in IDs} -> {NoNatives, NativesStagedBefore}]
    /\ nativesBefore[NativesDir("C", goos)] = NoNatives
    /\ nativesDirs = nativesBefore
    /\ \E v2 \in {"A", "B"} : \E v3 \in IDs :
          invocations = [c \in Callers |->
              Invocation(IF c = "c1" THEN "A" ELSE IF c = "c2" THEN v2 ELSE v3)]

SpecConcurrent == InitConcurrent /\ [][NextConcurrent]_vars

\* callers a and b work on the same staging directory
SameDir(a, b) == invocations[a].version = invocations[b].version

\* some native entry of the archives is not staged in full
StagingIncomplete(dir) ==
    \E k \in 1..Len(archives) : \E i \in 1..Len(archives[k].entries) :
        LET f == archives[k].entries[i] IN
        /\ HasNativeSuffix(f.name)
        /\ \A g \in nativesDirs[dir].files :
              g.name = Base(f.name, goos) => Incomplete(g.bytes)

\* caller c takes the step
StepOf(c) == invocations'[c] # invocations[c]

\* C22: what a call does depends on nothing but its own existence tests,
\* wherever the other calls on the same directory are: it goes on to the
\* walk exactly when the listing holds no native file name, and returns
\* success having created nothing when there is one, complete or not; it
\* creates the target of an entry exactly when os.Stat has not found it; and
\* os.Create leaves the target empty, whatever another call had written.
C22_NoMutualExclusion ==
    [][\A c \in Callers :
          LET dir == nativesDirs[DirOf(c)] IN
          /\ (StepOf(c) /\ At(c, "ReadDir")) =>
                IF HasNativeFile(dir.files)
                THEN /\ invocations'[c].at = "build"
                     /\ invocations'[c].created = {}
                     /\ nativesDirs' = nativesDirs
                ELSE invocations'[c].at = "walk"
          /\ (StepOf(c) /\ At(c, "entry") /\ invocations'[c].at # "walk") =>
                (invocations'[c].at = "create" <=>
                    /\ HasNativeSuffix(Target(c))
                    /\ ~ArchiveEntry(c).dir
                    /\ ~(Len(ArchiveEntry(c).name) >= 2
                           /\ ArchiveEntry(c).name[1] = "META-INF"
                           /\ ArchiveEntry(c).name[2] = "/")
                    /\ ~FileExists(dir.files, Target(c)))
          /\ (StepOf(c) /\ At(c, "create") /\ invocations'[c].at = "copy") =>
                [name |-> Target(c), bytes |-> <<>>] \in nativesDirs'[DirOf(c)].files
          /\ (StepOf(c) /\ At(c, "build")
                /\ invocations[c].events[1].name = "natives_already_extracted") =>
                invocations'[c].result.err = NoError]_vars

\* on an empty directory two calls have both created the same file, one of
\* them still writes it, and a third call, which listed the directory while
\* the file was incomplete, has returned success with natives missing
C22_Witness ==
    \E a, b, c \in Callers :
        /\ a # b /\ b # c /\ a # c
        /\ SameDir(a, b) /\ SameDir(b, c)
        /\ nativesBefore[DirOf(a)] = NoNatives
        /\ invocations[a].created \cap invocations[b].created # {}
        /\ invocations[b].at = "copy"
        /\ invocations[c].at = "done"
        /\ invocations[c].result.err = NoError
        /\ invocations[c].result.exe = "java"
        /\ invocations[c].sawIncomplete
        /\ StagingIncomplete(DirOf(c))

\* the directory as the sequential model sees it
ContentOf(bytes) ==
    IF \E k \in 1..Len(archives) : \E i \in 1..Len(archives[k].entries) :
          bytes = Whole(archives[k].entries[i].content)
    THEN LET p == CHOOSE p \in UNION {{<<k, i>> : i \in 1..Len(archives[k].entries)} :
                                        k \in 1..Len(archives)} :
                      bytes = Whole(archives[p[1]].entries[p[2]].content)
         IN archives[p[1]].entries[p[2]].content
    ELSE "partial"

Sequential(dir) ==
    [kind |-> dir.kind,
     files |-> {[name |-> f.name, content |-> ContentOf(f.bytes)] : f \in dir.files}]

\* what the call of c returns, and leaves in its directory, when it runs alone
\* on the installation as it was
Alone(c) ==
    LET v == invocations[c].version
        r == Resolved(v, docs, MaxDepth) IN
    IF r.tag = "err"
    THEN [results |-> {Failure([stage |-> "load", cause |-> r])},
          staging |-> Sequential(nativesBefore[DirOf(c)]), events |-> <<>>]
    ELSE IF ArchiveError(v, r.doc, goos, fsFiles, fsErr) # ""
    THEN [results |-> {Failure([stage |-> "jar",
                                cause |-> ArchiveError(v, r.doc, goos, fsFiles, fsErr)])},
          staging |-> Sequential(nativesBefore[DirOf(c)]), events |-> <<>>]
    ELSE LET n == extractNativesFromLibraries(Sequential(nativesBefore[DirOf(c)]),
                                              archives, v, goos) IN
         [results |-> IF n.err # ""
                      THEN {Failure([stage |-> "natives", cause |-> n.err])}
                      ELSE Commands(ApplyDefaults(params), v, r.doc, goos, fsFiles),
          staging |-> n.staging, events |-> n.events]

Unshared(c) == \A d \in Callers \ {c} : ~SameDir(c, d)

\* C23: a call writes in no directory but versions/<its id>/natives; a call
\* whose version no other call shares returns what it returns when run
\* alone on the initial installation, with the same events of the extraction,
\* and leaves its staging directory as the run alone leaves it, whatever the
\* calls for other versions do meanwhile.
C23_DifferentVersionsIndependent ==
    \A c \in Callers :
        /\ invocations[c].wrote \subseteq
              {"mc/versions/" \o invocations[c].version \o "/natives"}
        /\ (Unshared(c) /\ invocations[c].at = "done") =>
              /\ invocations[c].result \in Alone(c).results
              /\ invocations[c].events = Alone(c).events
              /\ Sequential(nativesDirs[DirOf(c)]) = Alone(c).staging

\* a call for A and a call for B, each the only one for its version, both
\* extracted while the other was under way and both returned a command
C23_Witness ==
    \E a, b \in Callers :
        /\ invocations[a].version = "A" /\ invocations[b].version = "B"
        /\ Unshared(a) /\ Unshared(b)
        /\ b \in invocations[a].during
        /\ invocations[a].at = "done" /\ invocations[b].at = "done"
        /\ invocations[a].created # {} /\ invocations[b].created # {}
        /\ invocations[a].result.err = NoError /\ invocations[b].result.err = NoError

====
